---- MODULE Spec2Model ----
(***************************************************************************)
(* Model of the building-code copilot (mjoshua97241/space-code-copilot):    *)
(*   - app/api/chat.py        the chat handler, citation repair and the     *)
(*                            citation list                                 *)
(*   - app/services/vector_store.py   the sparse/dense/hybrid retriever     *)
(*   - app/services/pdf_ingest.py     page-number recovery and chunking     *)
(*                                                                         *)
(* Text is modelled as a sequence of atoms.  An atom stands for a fixed     *)
(* piece of text: one character (",", "(", "5", " "), or a literal word     *)
(* that the regular expressions of the code treat as a unit ("[Source:",    *)
(* "Page", "Section:", "PDF page").  The regular expressions are modelled   *)
(* by matchers over atom sequences that follow Python's leftmost, greedy,   *)
(* backtracking semantics.                                                  *)
(***************************************************************************)
EXTENDS Integers, Sequences, FiniteSets, TLC

VARIABLES
    \* ---- chat handler (chat.py) ----
    pc,              \* position of the request in chat(): idle/retrieved/generated/done
    has_key,         \* OPENAI_API_KEY is set (llm.py:36)
    index_hits,      \* what the retriever returns for the query (a function of the index)
    ret_status,      \* pending / returned / raised: outcome of retriever.invoke;
                     \* unavailable: get_vector_store or get_retriever raised first
    retrieved_docs,  \* chat(): retrieved_docs
    answer,          \* chat(): raw answer text of the generation call
    response,        \* the ChatResponse or HTTPException of the request
    llm_calls,       \* generation calls (get_llm + chain.invoke) made by the request
    calls,           \* the calls the request has made so far, in order: retrieve
                     \* (retriever.invoke), generate (chain.invoke), repair, cite
    prev,            \* the previous request of this process: its chunks, answer, citations
    n_requests,      \* requests started so far
    \* ---- _fix_citations_in_answer as a function ----
    fix_pc, fix_in, fix_docs, fix_out, fix_out2,
    \* ---- VectorStore (vector_store.py) ----
    vs_pc,           \* off / ready: a VectorStore has been constructed
    documents,       \* self.documents: the chunk list the BM25 retriever is built from
    vectorstore,     \* the points held by the Qdrant collection (dense index)
    retriever,       \* the retriever object last returned by get_retriever
    results,         \* outcome of the last retriever.invoke; lists: what the two
                     \* retrievers of the ensemble returned
    modes_seen,      \* retriever kinds get_retriever has built on a non-empty store
    \* ---- pdf_ingest.py ----
    ing_pc,          \* off / loaded / chunked / rechunked / ingested
    chunk_args,      \* (chunk_size, chunk_overlap) of a direct chunk_documents call
    pages,           \* the per-page documents PyMuPDFLoader returned
    chunks,          \* the chunks chunk_documents returned
    \* ---- design_loader.py ----
    des_pc,          \* off / ready
    files,           \* the CSV files on disk, by resolved path: exists, rows, mtime
    rooms_cache,     \* the lru_cache of load_rooms: entries, least recently used first
    load_result,     \* outcome of the last load_rooms / clear_cache / load_design
                     \* call or GET /api/issues request
    \* ---- compliance_checker.py ----
    cmp_pc,          \* off / input / checked
    cmp_in,          \* the arguments of check_compliance: rooms, doors, rules
    issues,          \* the list check_compliance returned
    \* ---- chat.py: get_vector_store under concurrent requests ----
    vector_store_global,  \* the module-level _vector_store: None or an instance
    stores,          \* the VectorStore instances constructed: the PDFs each holds
    threads,         \* per request thread: position, loop index, result
    \* ---- rule_extractor.py ----
    rx_pc,           \* off / input / done
    rx_in,           \* per PDF path: whether the file exists, the rules
                     \* extract_rules_from_pdf returns for it
    rx_out           \* the list extract_rules_from_pdfs returned

chat_vars == <<pc, has_key, index_hits, ret_status, retrieved_docs, answer,
               response, llm_calls, calls, prev, n_requests>>
fix_vars == <<fix_pc, fix_in, fix_docs, fix_out, fix_out2>>
vs_vars == <<vs_pc, documents, vectorstore, retriever, results, modes_seen>>
ing_vars == <<ing_pc, chunk_args, pages, chunks>>
des_vars == <<des_pc, files, rooms_cache, load_result>>
cmp_vars == <<cmp_pc, cmp_in, issues>>
st_vars == <<vector_store_global, stores, threads>>
rx_vars == <<rx_pc, rx_in, rx_out>>
more_vars == <<st_vars, rx_vars>>
not_st_vars == <<chat_vars, fix_vars, vs_vars, ing_vars, des_vars, cmp_vars, rx_vars>>
rest_vars == <<des_vars, cmp_vars, more_vars>>
vars == <<chat_vars, fix_vars, vs_vars, ing_vars, rest_vars>>

----------------------------------------------------------------------------
(* Bounds of the model *)

\* longest retrieved list the chat handler is fed
MaxDocs == 2
\* longest retrieved list fed to _fix_citations_in_answer on its own
MaxFixDocs == 2
\* an answer text is the concatenation of at most this many segments
MaxSegs == 2
\* requests handled one after the other by the process
MaxRequests == 2
\* characters of the filler word "F", a long run of letters other than p
FillerLen == 200

----------------------------------------------------------------------------
(* Text helpers *)

Min(S) == CHOOSE x \in S : \A y \in S : x <= y
Max(S) == CHOOSE x \in S : \A y \in S : x >= y

\* \s of Python's re: blank and newline
Whitespace == {" ", "NL"}
\* \d
Digits == {"0", "1", "2", "3", "4", "5", "6", "7", "8", "9"}

DigitVal(d) ==
    CASE d = "0" -> 0 [] d = "1" -> 1 [] d = "2" -> 2 [] d = "3" -> 3
      [] d = "4" -> 4 [] d = "5" -> 5 [] d = "6" -> 6 [] d = "7" -> 7
      [] d = "8" -> 8 [] d = "9" -> 9

DigitChar(n) ==
    CASE n = 0 -> "0" [] n = 1 -> "1" [] n = 2 -> "2" [] n = 3 -> "3"
      [] n = 4 -> "4" [] n = 5 -> "5" [] n = 6 -> "6" [] n = 7 -> "7"
      [] n = 8 -> "8" [] n = 9 -> "9"

\* str(n) of a non-negative int
RECURSIVE IntToStr(_)
IntToStr(n) ==
    IF n < 10 THEN <<DigitChar(n)>>
    ELSE Append(IntToStr(n \div 10), DigitChar(n % 10))

\* int(s) of a digit string
RECURSIVE StrToInt(_)
StrToInt(ds) ==
    IF ds = <<>> THEN 0
    ELSE StrToInt(SubSeq(ds, 1, Len(ds) - 1)) * 10 + DigitVal(ds[Len(ds)])

\* end of the maximal run of atoms of S that starts at i (greedy S*)
RunEnd(t, i, S) ==
    Min({j \in i..(Len(t) + 1) : j = Len(t) + 1 \/ t[j] \notin S})

\* first position >= i holding atom a, 0 when there is none
FindFirst(t, i, a) ==
    LET hits == {j \in i..Len(t) : t[j] = a}
    IN IF hits = {} THEN 0 ELSE Min(hits)

\* str.strip()
Strip(s) ==
    LET keep == {j \in 1..Len(s) : s[j] \notin Whitespace}
    IN IF keep = {} THEN <<>> ELSE SubSeq(s, Min(keep), Max(keep))

\* pat in t
Contains(t, pat) ==
    \E i \in 1..(Len(t) - Len(pat) + 1) : SubSeq(t, i, i + Len(pat) - 1) = pat

\* len() of an atom
AtomLen(a) ==
    CASE a = "F" -> FillerLen
      [] a = "Page" -> 4
      [] a \in {"Section", "Chapter", "Article"} -> 7
      [] a \in {"Sec", "Art"} -> 3
      [] OTHER -> 1

\* len() of a text
RECURSIVE TextLen(_)
TextLen(t) == IF t = <<>> THEN 0 ELSE AtomLen(Head(t)) + TextLen(Tail(t))

RECURSIVE Concat(_)
Concat(ss) == IF ss = <<>> THEN <<>> ELSE Head(ss) \o Concat(Tail(ss))

\* sequences over S of length at most n
SeqsUpTo(S, n) == UNION {[1..k -> S] : k \in 0..n}

----------------------------------------------------------------------------
(* Retrieved chunks: the metadata the chat handler reads *)

\* Python None for a page number (falsy, as the code tests it)
NoPage == 0
\* Python None for a section
NoSection == "None"

Sources == {"A", "B"}
PageNums == {1, 2}
Sections == {NoSection, "5.2"}

\* page_content of a retrieved chunk: a text as long as the excerpt of a
\* citation may be, and one a character longer ("F" is a word of FillerLen
\* letters)
ChunkTexts == {<<"F">>, <<"F", "x">>}

Chunks ==
    [source : Sources, page_pdf : PageNums,
     page_document : PageNums \cup {NoPage}, section : Sections,
     page_content : ChunkTexts]

----------------------------------------------------------------------------
(* _fix_citations_in_answer, chat.py:149-211 *)

PdfType == "PDF page"
DocType == "document page"

MapPut(m, k, v) == [x \in (DOMAIN m) \cup {k} |-> IF x = k THEN v ELSE m[x]]

\* a variant of BuildPageTypeMap that writes the document-page mapping first,
\* so that the PDF-page mapping of the same chunk overwrites it
RECURSIVE BuildPageTypeMapDocFirst(_, _)
BuildPageTypeMapDocFirst(docs, m) ==
    IF docs = <<>> THEN m
    ELSE LET doc == Head(docs)
             m1 == IF doc.page_document # NoPage
                   THEN MapPut(m, <<(<<doc.source>>), IntToStr(doc.page_document)>>, DocType)
                   ELSE m
             m2 == IF doc.page_pdf # NoPage
                   THEN MapPut(m1, <<(<<doc.source>>), IntToStr(doc.page_pdf)>>, PdfType)
                   ELSE m1
         IN BuildPageTypeMapDocFirst(Tail(docs), m2)

\* chat.py:166-176: (source, str(page)) -> page type, later writes win
RECURSIVE BuildPageTypeMap(_, _)
BuildPageTypeMap(docs, m) ==
    IF docs = <<>> THEN m
    ELSE LET doc == Head(docs)
             m1 == IF doc.page_pdf # NoPage
                   THEN MapPut(m, <<(<<doc.source>>), IntToStr(doc.page_pdf)>>, PdfType)
                   ELSE m
             m2 == IF doc.page_document # NoPage
                   THEN MapPut(m1, <<(<<doc.source>>), IntToStr(doc.page_document)>>, DocType)
                   ELSE m1
         IN BuildPageTypeMap(Tail(docs), m2)

EmptyMap == [x \in {} |-> PdfType]

PageTypeMap(docs) == BuildPageTypeMap(docs, EmptyMap)

NoMatch == [ok |-> FALSE, end |-> 0, source |-> <<>>, page |-> <<>>, section |-> <<>>]

\* chat.py:180: the match of citation_pattern that starts at position i, if any:
\*   \[Source:\s*([^,]+),\s*Page:?\s*(\d+)(?:\s*\([^)]+\))?(?:\s*,\s*Section:\s*([^\]]+))?\]
\* source and section are the groups after .strip() (chat.py:183-185); an
\* absent section and one that strips to nothing are both <<>> (falsy).
\* The stages below follow the pattern from left to right; each quantifier of
\* the pattern has one way to match at most, so no backtracking is lost.

\* the end: (?:\s*,\s*Section:\s*([^\]]+))?\]  with the section found (e is its "]") or "]" at pos
MatchEnd(t, i, c, d0, d1, pos, s2, e) ==
    IF s2 # 0 /\ e > s2 + 1
    THEN [ok |-> TRUE, end |-> e + 1,
          source |-> Strip(SubSeq(t, i + 1, c - 1)),
          page |-> SubSeq(t, d0, d1 - 1),
          section |-> Strip(SubSeq(t, s2 + 1, e - 1))]
    ELSE IF pos <= Len(t) /\ t[pos] = "]"
    THEN [ok |-> TRUE, end |-> pos + 1,
          source |-> Strip(SubSeq(t, i + 1, c - 1)),
          page |-> SubSeq(t, d0, d1 - 1),
          section |-> <<>>]
    ELSE NoMatch

\* \s*,\s*Section:  s2 is the position of "Section:" when it is there, else 0
MatchSectionWord(t, i, c, d0, d1, pos, s2) ==
    IF s2 # 0 /\ s2 <= Len(t) /\ t[s2] = "Section:"
    THEN MatchEnd(t, i, c, d0, d1, pos, s2, FindFirst(t, s2 + 1, "]"))
    ELSE MatchEnd(t, i, c, d0, d1, pos, 0, 0)

\* the comma that may open the section part, s1 being the first non-blank at or after pos
MatchSectionComma(t, i, c, d0, d1, pos, s1) ==
    IF s1 <= Len(t) /\ t[s1] = ","
    THEN MatchSectionWord(t, i, c, d0, d1, pos, RunEnd(t, s1 + 1, Whitespace))
    ELSE MatchSectionWord(t, i, c, d0, d1, pos, 0)

\* after the parenthetical (or without one) the pattern goes on at pos
MatchAfterParen(t, i, c, d0, d1, pos) ==
    MatchSectionComma(t, i, c, d0, d1, pos, RunEnd(t, pos, Whitespace))

\* (?:\s*\([^)]+\))?  q is the first non-blank after the digits, r the first ")" after it
MatchParenClose(t, i, c, d0, d1, q, r) ==
    IF r > q + 1 THEN MatchAfterParen(t, i, c, d0, d1, r + 1) ELSE NoMatch

MatchParen(t, i, c, d0, d1, q) ==
    IF q <= Len(t) /\ t[q] = "("
    THEN MatchParenClose(t, i, c, d0, d1, q, FindFirst(t, q + 1, ")"))
    ELSE MatchAfterParen(t, i, c, d0, d1, d1)

\* (\d+)  the digits are t[d0..d1-1]
MatchDigits(t, i, c, d0, d1) ==
    IF d1 = d0 THEN NoMatch
    ELSE MatchParen(t, i, c, d0, d1, RunEnd(t, d1, Whitespace))

\* :?\s*  p2 is the position after "Page" and its optional colon
MatchPageNumber(t, i, c, d0) == MatchDigits(t, i, c, d0, RunEnd(t, d0, Digits))

\* \s*Page  p is the first non-blank after the comma
MatchPageWord(t, i, c, p) ==
    IF p > Len(t) \/ t[p] # "Page" THEN NoMatch
    ELSE MatchPageNumber(t, i, c,
            RunEnd(t, IF p + 1 <= Len(t) /\ t[p + 1] = ":" THEN p + 2 ELSE p + 1,
                   Whitespace))

\* \s*([^,]+),  c is the first comma after "[Source:"
MatchSource(t, i, c) ==
    IF c = 0 \/ c = i + 1 THEN NoMatch
    ELSE MatchPageWord(t, i, c, RunEnd(t, c + 1, Whitespace))

MatchAt(t, i) ==
    IF i > Len(t) \/ t[i] # "[Source:" THEN NoMatch
    ELSE MatchSource(t, i, FindFirst(t, i + 1, ","))

\* chat.py:188: "(PDF page)" in match.group(0) or "(document page)" in match.group(0)
HasPageType(txt) ==
    \/ Contains(txt, <<"(", PdfType, ")">>)
    \/ Contains(txt, <<"(", DocType, ")">>)

\* chat.py:196-199 and 203-206: f"[Source: {source}, Page: {page_num} ({page_type})"
\* + f", Section: {section}" when the section is truthy + "]"
CitationText(source, page, type, section) ==
    <<"[Source:", " ">> \o source \o <<",", " ", "Page", ":", " ">> \o page
        \o <<" ", "(", type, ")">>
        \o (IF section # <<>> THEN <<",", " ", "Section:", " ">> \o section ELSE <<>>)
        \o <<"]">>

\* a variant of ReplaceCitation that puts the page type after the citation
\* instead of inside it
ReplaceCitationAfterBracket(m, txt, map) ==
    IF HasPageType(txt) THEN txt
    ELSE IF <<m.source, m.page>> \in DOMAIN map
         THEN txt \o <<" ", "(", map[<<m.source, m.page>>], ")">>
         ELSE txt \o <<" ", "(", PdfType, ")">>

\* a variant of ReplaceCitation without the "already has a page type" test
ReplaceCitationAlways(m, txt, map) ==
    IF <<m.source, m.page>> \in DOMAIN map
    THEN CitationText(m.source, m.page, map[<<m.source, m.page>>], m.section)
    ELSE CitationText(m.source, m.page, PdfType, m.section)

\* a variant of ReplaceCitation that leaves a citation of an unknown page as it is
ReplaceCitationKnownOnly(m, txt, map) ==
    IF HasPageType(txt) THEN txt
    ELSE IF <<m.source, m.page>> \in DOMAIN map
         THEN CitationText(m.source, m.page, map[<<m.source, m.page>>], m.section)
         ELSE txt

\* chat.py:182-207 replace_citation: txt is match.group(0)
ReplaceCitation(m, txt, map) ==
    IF HasPageType(txt) THEN txt
    ELSE IF <<m.source, m.page>> \in DOMAIN map
         THEN CitationText(m.source, m.page, map[<<m.source, m.page>>], m.section)
         ELSE CitationText(m.source, m.page, PdfType, m.section)

\* chat.py:210 re.sub: the text cut into pieces from left to right, a piece being
\* either a match of citation_pattern (leftmost, non-overlapping) with the text
\* replace_citation returns for it, or one atom outside every match, copied.
RECURSIVE SubPieces(_, _, _)
SubPieces(t, i, map) ==
    IF i > Len(t) THEN <<>>
    ELSE LET m == MatchAt(t, i)
         IN IF m.ok
            THEN <<[txt |-> SubSeq(t, i, m.end - 1), m |-> m,
                    out |-> ReplaceCitation(m, SubSeq(t, i, m.end - 1), map)]>>
                 \o SubPieces(t, m.end, map)
            ELSE <<[txt |-> <<t[i]>>, m |-> NoMatch, out |-> <<t[i]>>]>>
                 \o SubPieces(t, i + 1, map)

FixPieces(ans, docs) == SubPieces(ans, 1, PageTypeMap(docs))

\* chat.py:149-211 _fix_citations_in_answer
FixCitations(ans, docs) ==
    LET ps == FixPieces(ans, docs)
    IN Concat([k \in 1..Len(ps) |-> ps[k].out])

----------------------------------------------------------------------------
(* Answer texts fed to the repair: concatenations of these segments *)

Cite(src, page, tail) ==
    <<"[Source:", " ", src, ",", " ", "Page", ":", " ">> \o page \o tail \o <<"]">>

Segments ==
    {Cite("A", <<"1">>, <<>>),                     \* [Source: A, Page: 1]
     \* [Source: A, Page: 2, Section: 5.2]
     Cite("A", <<"2">>, <<",", " ", "Section:", " ", "5", ".", "2">>),
     \* [Source: A, Page: 1 (PDF page)]
     Cite("A", <<"1">>, <<" ", "(", PdfType, ")">>),
     \* [Source: A, Page: 1 (document page)]
     Cite("A", <<"1">>, <<" ", "(", DocType, ")">>),
     \* [Source:A,Page 2]
     <<"[Source:", "A", ",", "Page", " ", "2", "]">>,
     \* [Source: B, Page: 1 (x)]
     Cite("B", <<"1">>, <<" ", "(", "x", ")">>),
     \* [Source: A, Page: 12]
     Cite("A", <<"1", "2">>, <<>>),
     \* [Source: A, Page: 1, Section: 5 (PDF page)]
     Cite("A", <<"1">>, <<",", " ", "Section:", " ", "5", " ", "(", PdfType, ")">>),
     \* [Source: A , Page: 01, Section: <newline>]
     <<"[Source:", " ", "A", " ", ",", " ", "Page", ":", " ", "0", "1",
       ",", " ", "Section:", " ", "NL", "]">>,
     \* [Source: A, Page: 1 ]    (a blank before the bracket: no match)
     Cite("A", <<"1">>, <<" ">>),
     \* "[Source: x "           (an opening left dangling)
     <<"[Source:", " ", "x", " ">>,
     \* "[Source: A, Page: 2 ("  (an opening parenthesis left dangling)
     <<"[Source:", " ", "A", ",", " ", "Page", ":", " ", "2", " ", "(">>,
     \* plain prose
     <<"x", " ">>}

Answers == {Concat(ss) : ss \in SeqsUpTo(Segments, MaxSegs)}

\* the repair reads source, page_pdf and page_document only
FixChunks == {c \in Chunks : c.section = NoSection /\ c.page_content = <<"F">>}
FixDocLists == SeqsUpTo(FixChunks, MaxFixDocs)

----------------------------------------------------------------------------
(* SpecRepair: _fix_citations_in_answer applied to an answer, then to its own output *)

ChatIdle ==
    /\ pc = "off" /\ has_key = FALSE /\ index_hits = <<>> /\ ret_status = "pending"
    /\ retrieved_docs = <<>> /\ answer = <<>> /\ response = <<>>
    /\ llm_calls = 0 /\ calls = <<>> /\ prev = <<>> /\ n_requests = 0

FixIdle ==
    /\ fix_pc = "off" /\ fix_in = <<>> /\ fix_docs = <<>> /\ fix_out = <<>>
    /\ fix_out2 = <<>>

VsIdle ==
    /\ vs_pc = "off" /\ documents = <<>> /\ vectorstore = <<>> /\ retriever = <<>>
    /\ results = <<>> /\ modes_seen = {}

IngIdle == ing_pc = "off" /\ chunk_args = <<>> /\ pages = <<>> /\ chunks = <<>>

DesignIdle ==
    des_pc = "off" /\ files = <<>> /\ rooms_cache = <<>> /\ load_result = <<>>

ComplianceIdle == cmp_pc = "off" /\ cmp_in = <<>> /\ issues = <<>>

StartupIdle == vector_store_global = 0 /\ stores = <<>> /\ threads = <<>>

RulesIdle == rx_pc = "off" /\ rx_in = <<>> /\ rx_out = <<>>

MoreIdle == StartupIdle /\ RulesIdle

RestIdle == DesignIdle /\ ComplianceIdle /\ MoreIdle

InitRepair ==
    /\ ChatIdle /\ VsIdle /\ IngIdle /\ RestIdle
    /\ fix_pc = "input"
    /\ fix_in \in Answers
    /\ fix_docs \in FixDocLists
    /\ fix_out = <<>>
    /\ fix_out2 = <<>>

\* one call of _fix_citations_in_answer; fix_out holds the pieces of re.sub,
\* the returned text is their concatenation
FixOnce ==
    /\ fix_pc = "input"
    /\ fix_out' = FixPieces(fix_in, fix_docs)
    /\ fix_pc' = "fixed"
    /\ UNCHANGED <<fix_in, fix_docs, fix_out2, chat_vars, vs_vars, ing_vars, rest_vars>>

FixedText == Concat([k \in 1..Len(fix_out) |-> fix_out[k].out])

\* a second call, on the text the first one returned
FixTwice ==
    /\ fix_pc = "fixed"
    /\ fix_out2' = FixCitations(FixedText, fix_docs)
    /\ fix_pc' = "refixed"
    /\ UNCHANGED <<fix_in, fix_docs, fix_out, chat_vars, vs_vars, ing_vars, rest_vars>>

NextRepair == FixOnce \/ FixTwice

SpecRepair == InitRepair /\ [][NextRepair]_vars

----------------------------------------------------------------------------
(* The chat handler, chat.py:218-420 *)

\* chat.py:279
FallbackAnswer == <<"I couldn't find relevant information">>

\* the page of a Citation when the chunk has neither page number (chat.py:387)
NoPageLabel == [num |-> NoPage, type |-> "None"]

\* a variant of PageLabel that shows the PDF page whenever the chunk has one
PageLabelPdfFirst(doc) ==
    IF doc.page_pdf # NoPage THEN [num |-> doc.page_pdf, type |-> PdfType]
    ELSE IF doc.page_document # NoPage
         THEN [num |-> doc.page_document, type |-> DocType]
         ELSE [num |-> NoPage, type |-> "None"]

\* chat.py:382-387: f"{page_document} (document page)" / f"{page_pdf} (PDF page)" / None
PageLabel(doc) ==
    IF doc.page_document # NoPage THEN [num |-> doc.page_document, type |-> DocType]
    ELSE IF doc.page_pdf # NoPage THEN [num |-> doc.page_pdf, type |-> PdfType]
    ELSE NoPageLabel

\* a variant of CitationKey that tells a PDF page from a document page of
\* the same number
CitationKeyWithLabel(doc) ==
    <<doc.source, PageLabel(doc), doc.section>>

\* chat.py:393: (source, page_document or page_pdf, section)
CitationKey(doc) ==
    <<doc.source,
      IF doc.page_document # NoPage THEN doc.page_document ELSE doc.page_pdf,
      doc.section>>

\* chat.py:399: the excerpt holds at most 200 characters of the chunk
ExcerptChars == 200

\* text[:n]: an atom the cut goes through leaves its first letters
RECURSIVE FirstChars(_, _)
FirstChars(t, n) ==
    IF n = 0 \/ t = <<>> THEN <<>>
    ELSE IF AtomLen(Head(t)) <= n
         THEN <<Head(t)>> \o FirstChars(Tail(t), n - AtomLen(Head(t)))
         ELSE [i \in 1..n |-> "x"]

\* a variant of Excerpt that also cuts a text of exactly 200 characters
ExcerptFromLimit(text) ==
    IF TextLen(text) >= ExcerptChars
    THEN FirstChars(text, ExcerptChars) \o <<".", ".", ".">>
    ELSE text

\* chat.py:399: doc.page_content[:200] + "..." if len(doc.page_content) > 200
Excerpt(text) ==
    IF TextLen(text) > ExcerptChars
    THEN FirstChars(text, ExcerptChars) \o <<".", ".", ".">>
    ELSE text

\* chat.py:395-400
MakeCitation(doc) ==
    [source |-> doc.source, page |-> PageLabel(doc), section |-> doc.section,
     text |-> Excerpt(doc.page_content)]

\* a variant of CitationsLoop that never consults seen_sources
RECURSIVE CitationsLoopNoSeen(_, _, _)
CitationsLoopNoSeen(docs, seen, acc) ==
    IF docs = <<>> THEN acc
    ELSE CitationsLoopNoSeen(Tail(docs), seen \cup {CitationKey(Head(docs))},
                             Append(acc, MakeCitation(Head(docs))))

\* chat.py:374-401: the loop over retrieved_docs with seen_sources
RECURSIVE CitationsLoop(_, _, _)
CitationsLoop(docs, seen, acc) ==
    IF docs = <<>> THEN acc
    ELSE LET doc == Head(docs)
             key == CitationKey(doc)
         IN IF key \notin seen
            THEN CitationsLoop(Tail(docs), seen \cup {key}, Append(acc, MakeCitation(doc)))
            ELSE CitationsLoop(Tail(docs), seen, acc)

\* chat.py:371-401
DeriveCitations(docs) == CitationsLoop(docs, {}, <<>>)

\* chat.py:409-420: ValueError -> 400 "Configuration error", anything else -> 500
ErrorResponse(kind) ==
    [status |-> IF kind = "ValueError" THEN 400 ELSE 500,
     answer |-> <<>>, citations |-> <<>>]

ErrorKinds == {"ValueError", "Exception"}

\* answers of the generation call
ChatAnswers ==
    {<<"x", " ">>,
     Cite("A", <<"1">>, <<>>),
     Cite("A", <<"1">>, <<" ", "(", DocType, ")">>),
     Cite("A", <<"2">>, <<",", " ", "Section:", " ", "5", ".", "2">>)
         \o Cite("B", <<"1">>, <<" ", "(", "x", ")">>)}

DocLists == SeqsUpTo(Chunks, MaxDocs)

NoResponse == [status |-> 0, answer |-> <<>>, citations |-> <<>>]
NoPrev == [valid |-> FALSE, docs |-> <<>>, answer |-> <<>>, citations |-> <<>>]

\* the process after start-up: the index holds some set of chunks (possibly
\* none), which fixes what the retriever returns for the query
Init ==
    /\ pc = "idle"
    /\ has_key \in BOOLEAN
    /\ index_hits \in DocLists
    /\ ret_status = "pending"
    /\ retrieved_docs = <<>>
    /\ answer = <<>>
    /\ response = NoResponse
    /\ llm_calls = 0
    /\ calls = <<>>
    /\ prev = NoPrev
    /\ n_requests = 0
    /\ FixIdle /\ VsIdle /\ IngIdle /\ RestIdle

\* a variant of ChatRetrieve without the early return
ChatRetrieveNoFallback ==
    /\ pc = "idle"
    /\ n_requests' = n_requests + 1
    /\ ret_status' = "returned"
    /\ retrieved_docs' = index_hits
    /\ calls' = Append(calls, "retrieve")
    /\ response' = response
    /\ pc' = "retrieved"
    /\ UNCHANGED <<has_key, index_hits, answer, llm_calls, prev, fix_vars, vs_vars, ing_vars, rest_vars>>

\* chat.py:263-281: get_vector_store, get_retriever(k=5), retriever.invoke, and
\* the early return when nothing was retrieved.  Any of the three calls may
\* raise (building the embeddings client, indexing, embedding the query), with
\* or without OPENAI_API_KEY; which exception it is depends on the libraries.
\* When get_vector_store or get_retriever raises, retriever.invoke is not
\* reached (ret_status "unavailable").
ChatRetrieve ==
    /\ pc = "idle"
    /\ n_requests' = n_requests + 1
    /\ \/ /\ ret_status' = "returned"
          /\ retrieved_docs' = index_hits
          /\ calls' = Append(calls, "retrieve")
          /\ IF index_hits = <<>>
             THEN /\ response' = [status |-> 200, answer |-> FallbackAnswer,
                                  citations |-> <<>>]
                  /\ pc' = "done"
             ELSE /\ response' = response
                  /\ pc' = "retrieved"
       \/ \E kind \in ErrorKinds :
             /\ ret_status' = "raised"
             /\ retrieved_docs' = <<>>
             /\ calls' = Append(calls, "retrieve")
             /\ response' = ErrorResponse(kind)
             /\ pc' = "done"
       \/ \E kind \in ErrorKinds :
             /\ ret_status' = "unavailable"
             /\ retrieved_docs' = <<>>
             /\ calls' = calls
             /\ response' = ErrorResponse(kind)
             /\ pc' = "done"
    /\ UNCHANGED <<has_key, index_hits, answer, llm_calls, prev, fix_vars, vs_vars, ing_vars, rest_vars>>

\* a variant of ChatGenerate that calls chain.invoke once more after it raised
ChatGenerateRetry ==
    /\ pc = "retrieved"
    /\ llm_calls' = llm_calls + 1
    /\ IF ~has_key
       THEN /\ response' = ErrorResponse("ValueError")
            /\ answer' = answer
            /\ calls' = calls
            /\ pc' = "done"
       ELSE /\ calls' = Append(calls, "generate")
            /\ \/ \E a \in ChatAnswers :
                    /\ answer' = a
                    /\ response' = response
                    /\ pc' = "generated"
               \/ \E kind \in ErrorKinds :
                    /\ response' = IF llm_calls = 0 THEN response ELSE ErrorResponse(kind)
                    /\ answer' = answer
                    /\ pc' = IF llm_calls = 0 THEN "retrieved" ELSE "done"
    /\ UNCHANGED <<has_key, index_hits, ret_status, retrieved_docs, prev, n_requests,
                   fix_vars, vs_vars, ing_vars, rest_vars>>

\* chat.py:283-364: the context and the prompt are built, get_llm is called
\* (llm.py:36-38 raises ValueError without OPENAI_API_KEY), then chain.invoke,
\* which returns the answer text or raises
ChatGenerate ==
    /\ pc = "retrieved"
    /\ llm_calls' = llm_calls + 1
    /\ IF ~has_key
       THEN /\ response' = ErrorResponse("ValueError")
            /\ answer' = answer
            /\ calls' = calls
            /\ pc' = "done"
       ELSE /\ calls' = Append(calls, "generate")
            /\ \/ \E a \in ChatAnswers :
                    /\ answer' = a
                    /\ response' = response
                    /\ pc' = "generated"
               \/ \E kind \in ErrorKinds :
                    /\ response' = ErrorResponse(kind)
                    /\ answer' = answer
                    /\ pc' = "done"
    /\ UNCHANGED <<has_key, index_hits, ret_status, retrieved_docs, prev, n_requests,
                   fix_vars, vs_vars, ing_vars, rest_vars>>

\* the citations the answer text itself names, in the order of the text
AnswerCitations(ans) ==
    LET ps == SubPieces(ans, 1, EmptyMap)
        ks == {k \in 1..Len(ps) : ps[k].m.ok}
    IN [n \in 1..Cardinality(ks) |->
            LET k == CHOOSE x \in ks : Cardinality({y \in ks : y <= x}) = n
            IN [source |-> IF Len(ps[k].m.source) = 1 THEN ps[k].m.source[1] ELSE "?",
                page |-> [num |-> StrToInt(ps[k].m.page),
                          type |-> IF Contains(ps[k].txt, <<"(", DocType, ")">>)
                                   THEN DocType ELSE PdfType],
                section |-> IF ps[k].m.section = <<>> THEN NoSection ELSE "5.2",
                text |-> <<>>]]

\* a variant of ChatRespond that returns the citations the generated text names
ChatRespondFromAnswer ==
    /\ pc = "generated"
    /\ response' = [status |-> 200,
                    answer |-> FixCitations(answer, retrieved_docs),
                    citations |-> AnswerCitations(answer)]
    /\ calls' = calls \o <<"repair", "cite">>
    /\ pc' = "done"
    /\ UNCHANGED <<has_key, index_hits, ret_status, retrieved_docs, answer, llm_calls,
                   prev, n_requests, fix_vars, vs_vars, ing_vars, rest_vars>>

\* chat.py:366-407: repair of the answer, the citation list, the response
ChatRespond ==
    /\ pc = "generated"
    /\ response' = [status |-> 200,
                    answer |-> FixCitations(answer, retrieved_docs),
                    citations |-> DeriveCitations(retrieved_docs)]
    /\ calls' = calls \o <<"repair", "cite">>
    /\ pc' = "done"
    /\ UNCHANGED <<has_key, index_hits, ret_status, retrieved_docs, answer, llm_calls,
                   prev, n_requests, fix_vars, vs_vars, ing_vars, rest_vars>>

\* the next request of the same process, with the same query on the same index;
\* prev remembers what the finished one retrieved, was told and returned
NextRequest ==
    /\ pc = "done"
    /\ n_requests < MaxRequests
    /\ prev' = IF response.status = 200 /\ ret_status = "returned"
               THEN [valid |-> TRUE, docs |-> retrieved_docs, answer |-> answer,
                     citations |-> response.citations]
               ELSE NoPrev
    /\ pc' = "idle"
    /\ ret_status' = "pending"
    /\ retrieved_docs' = <<>>
    /\ answer' = <<>>
    /\ response' = NoResponse
    /\ llm_calls' = 0
    /\ calls' = <<>>
    /\ UNCHANGED <<has_key, index_hits, n_requests, fix_vars, vs_vars, ing_vars, rest_vars>>

Next == ChatRetrieve \/ ChatGenerate \/ ChatRespond \/ NextRequest

Spec == Init /\ [][Next]_vars

----------------------------------------------------------------------------
(* SpecRetriever: VectorStore.add_documents, get_retriever and the invoke    *)
(* of the retriever it returns.  A chunk of the store is [id, content]: id   *)
(* is its position in self.documents, content its page_content.              *)

\* chunks ever added to one store
MaxChunks == 3
\* largest k passed to get_retriever
MaxK == 2
\* chunks of one add_documents call
BatchSizes == {1, 2}
\* page_content of the chunks
Contents == {"c1", "c2"}
\* (bm25_weight, dense_weight) in tenths; 5/5 is the default 0.5/0.5
WeightPairs == {<<5, 5>>, <<2, 8>>}

\* EnsembleRetriever.c, left at its default by vector_store.py:234-237
RRF_C == 60

NoRetriever == <<>>
NoResults == [status |-> "none", docs |-> <<>>, lists |-> <<>>]

\* the chunks a batch of contents becomes when appended after n chunks
NewChunks(batch, n) == [j \in 1..Len(batch) |-> [id |-> n + j, content |-> batch[j]]]

\* a variant of get_retriever's branch order that tests use_bm25_only first
GetRetrieverModeBm25First(use_hybrid, use_bm25_only, docs) ==
    IF use_bm25_only /\ docs # <<>> THEN "bm25"
    ELSE IF use_hybrid /\ docs # <<>> THEN "hybrid"
    ELSE "dense"

\* vector_store.py:221, 242, 250: the branch get_retriever takes
GetRetrieverMode(use_hybrid, use_bm25_only, docs) ==
    IF use_hybrid /\ docs # <<>> THEN "hybrid"
    ELSE IF use_bm25_only /\ docs # <<>> THEN "bm25"
    ELSE "dense"

\* the rankings an index over docs can return for some query: min(k, n)
\* different chunks in any order
Rankings(docs, k) ==
    LET n == Min({k, Len(docs)})
    IN {[i \in 1..n |-> docs[f[i]]] :
            f \in {g \in [1..n -> 1..Len(docs)] :
                       \A a, b \in 1..n : a # b => g[a] # g[b]}}

\* product of (rank + c) over the ranks 1..n: the common denominator of the scores
RECURSIVE ScoreDen(_)
ScoreDen(n) == IF n = 0 THEN 1 ELSE (n + RRF_C) * ScoreDen(n - 1)

\* weight / (rank + c), over the common denominator ScoreDen(n)
RrfTerm(weight, rank, n) == weight * (ScoreDen(n) \div (rank + RRF_C))

\* the sum of the terms one ranking adds to the score of a content
RECURSIVE ListScore(_, _, _, _, _)
ListScore(list, rank, content, weight, n) ==
    IF rank > Len(list) THEN 0
    ELSE (IF list[rank].content = content THEN RrfTerm(weight, rank, n) ELSE 0)
         + ListScore(list, rank + 1, content, weight, n)

\* rrf_score[doc.page_content] after both rankings were scanned
RrfScore(content, sparse, dense, w) ==
    ListScore(sparse, 1, content, w[1], Max({Len(sparse), Len(dense), 1}))
    + ListScore(dense, 1, content, w[2], Max({Len(sparse), Len(dense), 1}))

\* unique_by_key(all_docs, page_content): the first chunk of each content
RECURSIVE UniqueByKey(_, _, _)
UniqueByKey(docs, seen, acc) ==
    IF docs = <<>> THEN acc
    ELSE IF Head(docs).content \in seen
         THEN UniqueByKey(Tail(docs), seen, acc)
         ELSE UniqueByKey(Tail(docs), seen \cup {Head(docs).content},
                          Append(acc, Head(docs)))

\* a variant of InsertByScore that puts a chunk before the chunks of equal score
InsertByScoreTiesFirst(sorted, doc, sparse, dense, w) ==
    LET before == {i \in 1..Len(sorted) :
                      RrfScore(sorted[i].content, sparse, dense, w)
                          > RrfScore(doc.content, sparse, dense, w)}
        n == Cardinality(before)
    IN SubSeq(sorted, 1, n) \o <<doc>> \o SubSeq(sorted, n + 1, Len(sorted))

\* place of doc in a list sorted by descending score: behind every chunk
\* whose score is not smaller (sorted(..., reverse=True) is stable)
InsertByScore(sorted, doc, sparse, dense, w) ==
    LET before == {i \in 1..Len(sorted) :
                      RrfScore(sorted[i].content, sparse, dense, w)
                          >= RrfScore(doc.content, sparse, dense, w)}
        n == Cardinality(before)
    IN SubSeq(sorted, 1, n) \o <<doc>> \o SubSeq(sorted, n + 1, Len(sorted))

RECURSIVE SortByScore(_, _, _, _, _)
SortByScore(docs, acc, sparse, dense, w) ==
    IF docs = <<>> THEN acc
    ELSE SortByScore(Tail(docs), InsertByScore(acc, Head(docs), sparse, dense, w),
                     sparse, dense, w)

\* EnsembleRetriever.weighted_reciprocal_rank over [bm25 result, dense result]
WeightedReciprocalRank(sparse, dense, w) ==
    SortByScore(UniqueByKey(sparse \o dense, {}, <<>>), <<>>, sparse, dense, w)

InitRetriever ==
    /\ ChatIdle /\ FixIdle /\ IngIdle /\ RestIdle
    /\ vs_pc = "ready"
    /\ documents = <<>>
    /\ vectorstore = <<>>
    /\ retriever = NoRetriever
    /\ results = NoResults
    /\ modes_seen = {}

\* vector_store.py:167-178: self.documents.extend(documents), then the dense
\* insert, which embeds the batch and may raise; a batch below the upsert
\* batch size that raises leaves no point behind
AddDocuments ==
    /\ vs_pc = "ready"
    /\ \E n \in BatchSizes : \E batch \in [1..n -> Contents] :
          /\ Len(documents) + n <= MaxChunks
          /\ documents' = documents \o NewChunks(batch, Len(documents))
          /\ \/ vectorstore' = vectorstore \o NewChunks(batch, Len(documents))
             \/ vectorstore' = vectorstore
    /\ UNCHANGED <<vs_pc, retriever, results, modes_seen, chat_vars, fix_vars, ing_vars, rest_vars>>

\* vector_store.py:180-254: the retriever object; BM25Retriever.from_documents
\* indexes the chunks self.documents holds at this moment
GetRetriever ==
    /\ vs_pc = "ready"
    /\ \E k \in 1..MaxK, use_hybrid \in BOOLEAN, use_bm25_only \in BOOLEAN,
          w \in WeightPairs :
          /\ retriever' = [mode |-> GetRetrieverMode(use_hybrid, use_bm25_only, documents),
                           k |-> k,
                           use_hybrid |-> use_hybrid,
                           use_bm25_only |-> use_bm25_only,
                           weights |-> w,
                           bm25_docs |-> documents]
          /\ modes_seen' = IF documents # <<>>
                           THEN modes_seen \cup
                                   {GetRetrieverMode(use_hybrid, use_bm25_only, documents)}
                           ELSE modes_seen
    /\ results' = NoResults
    /\ UNCHANGED <<vs_pc, documents, vectorstore, chat_vars, fix_vars, ing_vars, rest_vars>>

\* retriever.invoke(query): BM25 ranks its own chunk list, the dense retriever
\* embeds the query (which may raise) and searches the collection, the
\* ensemble invokes both and fuses
Invoke ==
    /\ vs_pc = "ready"
    /\ retriever # NoRetriever
    /\ \/ /\ retriever.mode = "bm25"
          /\ \E sparse \in Rankings(retriever.bm25_docs, retriever.k) :
                results' = [status |-> "ok", docs |-> sparse, lists |-> <<>>]
       \/ /\ retriever.mode = "dense"
          /\ \E dense \in Rankings(vectorstore, retriever.k) :
                results' = [status |-> "ok", docs |-> dense, lists |-> <<>>]
       \/ /\ retriever.mode = "hybrid"
          /\ \E sparse \in Rankings(retriever.bm25_docs, retriever.k),
                dense \in Rankings(vectorstore, retriever.k) :
                results' = [status |-> "ok",
                            docs |-> WeightedReciprocalRank(sparse, dense,
                                                            retriever.weights),
                            lists |-> <<sparse, dense>>]
       \/ /\ retriever.mode # "bm25"
          /\ results' = [status |-> "raised", docs |-> <<>>, lists |-> <<>>]
    /\ UNCHANGED <<vs_pc, documents, vectorstore, retriever, modes_seen,
                   chat_vars, fix_vars, ing_vars, rest_vars>>

NextRetriever == AddDocuments \/ GetRetriever \/ Invoke

SpecRetriever == InitRetriever /\ [][NextRetriever]_vars

----------------------------------------------------------------------------
(* pdf_ingest.py: page-number recovery.  A page text is a sequence of atoms; *)
(* besides the one-character atoms there are the words "Page", "Section",    *)
(* "Sec", "Chapter", "Art", "Article" and the filler "F", a long run of      *)
(* letters other than p.  "x" is any letter other than p.                    *)

\* pdf_ingest.py:54: the footer is the last 200 characters
FooterChars == 200
\* pdf_ingest.py:61, 74, 86: largest page number accepted
MaxPageNumber == 2000
\* pdf_ingest.py:69, 87: a page number has at most 4 digits
MaxPageDigits == 4
\* pdf_ingest.py:74, 87: distance allowed between a bare number and the PDF page
PageProximity == 100
\* pdf_ingest.py:86: the last line must be shorter than 30 characters
ShortLineLen == 30
\* pdf_ingest.py:168: largest page number chunk_documents stores
MaxMappedPage == 5000

\* \w of Python's re, as far as the atoms go
Letters == {"x", "p", "F", "Page", "Section", "Sec", "Chapter", "Art", "Article"}
WordChars == Letters \cup Digits

Abs(n) == IF n < 0 THEN 0 - n ELSE n

\* text[-n:]: an atom the cut goes through leaves a run of letters without p
RECURSIVE LastChars(_, _)
LastChars(t, n) ==
    IF n = 0 \/ t = <<>> THEN <<>>
    ELSE IF AtomLen(t[Len(t)]) <= n
         THEN Append(LastChars(SubSeq(t, 1, Len(t) - 1), n - AtomLen(t[Len(t)])),
                     t[Len(t)])
         ELSE <<"x">>

\* pdf_ingest.py:54
FooterText(text) ==
    IF TextLen(text) > FooterChars THEN LastChars(text, FooterChars) ELSE text

\* text.split('\n')
RECURSIVE SplitLines(_)
SplitLines(t) ==
    IF FindFirst(t, 1, "NL") = 0 THEN <<t>>
    ELSE <<SubSeq(t, 1, FindFirst(t, 1, "NL") - 1)>>
         \o SplitLines(SubSeq(t, FindFirst(t, 1, "NL") + 1, Len(t)))

\* position behind (?:Page|p\.?) when it matches at i, else 0
LabelEnd(f, i) ==
    IF f[i] = "Page" THEN i + 1
    ELSE IF f[i] = "p"
         THEN (IF i + 1 <= Len(f) /\ f[i + 1] = "." THEN i + 2 ELSE i + 1)
         ELSE 0

\* \s*(\d+)\b from position j: [from, to) of the digits, to = 0 without a match
LabelDigits(f, j) ==
    [from |-> RunEnd(f, j, Whitespace),
     to |-> IF /\ RunEnd(f, RunEnd(f, j, Whitespace), Digits) > RunEnd(f, j, Whitespace)
               /\ \/ RunEnd(f, RunEnd(f, j, Whitespace), Digits) = Len(f) + 1
                  \/ f[RunEnd(f, RunEnd(f, j, Whitespace), Digits)] \notin WordChars
            THEN RunEnd(f, RunEnd(f, j, Whitespace), Digits)
            ELSE 0]

\* the match of footer_pattern at i: the digits and the end, to = 0 without a match
LabelMatchAt(f, i) ==
    IF LabelEnd(f, i) = 0 THEN [from |-> 0, to |-> 0] ELSE LabelDigits(f, LabelEnd(f, i))

\* re.findall(footer_pattern, footer_text, re.IGNORECASE): the digit strings
\* of the matches, left to right, not overlapping
RECURSIVE FooterMatches(_, _)
FooterMatches(f, i) ==
    IF i > Len(f) THEN <<>>
    ELSE IF LabelMatchAt(f, i).to = 0 THEN FooterMatches(f, i + 1)
    ELSE <<SubSeq(f, LabelMatchAt(f, i).from, LabelMatchAt(f, i).to - 1)>>
         \o FooterMatches(f, LabelMatchAt(f, i).to)

\* a variant of FirstLabelInRange that takes the first label whatever its value
FirstLabelAnyValue(matches) ==
    IF matches = <<>> THEN NoPage ELSE StrToInt(Head(matches))

\* pdf_ingest.py:57-62: the first match whose number lies in 1..2000
RECURSIVE FirstLabelInRange(_)
FirstLabelInRange(matches) ==
    IF matches = <<>> THEN NoPage
    ELSE IF 1 <= StrToInt(Head(matches)) /\ StrToInt(Head(matches)) <= MaxPageNumber
         THEN StrToInt(Head(matches))
         ELSE FirstLabelInRange(Tail(matches))

\* str.isdigit()
IsDigit(s) == s # <<>> /\ \A j \in 1..Len(s) : s[j] \in Digits

\* a variant of StandaloneNumber without the distance test
StandaloneNumberAnyDistance(line, pdf_page_num) ==
    IF /\ IsDigit(Strip(line)) /\ Len(Strip(line)) <= MaxPageDigits
       /\ 1 <= StrToInt(Strip(line)) /\ StrToInt(Strip(line)) <= MaxPageNumber
    THEN StrToInt(Strip(line))
    ELSE NoPage

\* pdf_ingest.py:67-75: the number a line gives as a standalone page number
StandaloneNumber(line, pdf_page_num) ==
    IF /\ IsDigit(Strip(line)) /\ Len(Strip(line)) <= MaxPageDigits
       /\ 1 <= StrToInt(Strip(line)) /\ StrToInt(Strip(line)) <= MaxPageNumber
       /\ Abs(StrToInt(Strip(line)) - pdf_page_num) <= PageProximity
    THEN StrToInt(Strip(line))
    ELSE NoPage

\* pdf_ingest.py:66-76: reversed(lines[-3:]), the first line that qualifies
RECURSIVE LastLinesNumber(_, _, _)
LastLinesNumber(lines, left, pdf_page_num) ==
    IF left = 0 \/ lines = <<>> THEN NoPage
    ELSE IF StandaloneNumber(lines[Len(lines)], pdf_page_num) # NoPage
         THEN StandaloneNumber(lines[Len(lines)], pdf_page_num)
         ELSE LastLinesNumber(SubSeq(lines, 1, Len(lines) - 1), left - 1, pdf_page_num)

\* (\d+)\s*$ on a stripped line: the digits the line ends with
TrailingDigits(line) ==
    SubSeq(line, Min({j \in 1..(Len(line) + 1) :
                         \A m \in j..Len(line) : line[m] \in Digits}), Len(line))

\* pdf_ingest.py:80-88
TrailingNumber(last_line, pdf_page_num) ==
    IF /\ TrailingDigits(last_line) # <<>>
       /\ 1 <= StrToInt(TrailingDigits(last_line))
       /\ StrToInt(TrailingDigits(last_line)) <= MaxPageNumber
       /\ TextLen(last_line) < ShortLineLen
       /\ Len(TrailingDigits(last_line)) <= MaxPageDigits
       /\ Abs(StrToInt(TrailingDigits(last_line)) - pdf_page_num) <= PageProximity
    THEN StrToInt(TrailingDigits(last_line))
    ELSE NoPage

\* the first in-range explicit label of the footer, NoPage without one
FooterLabel(text) == FirstLabelInRange(FooterMatches(FooterText(text), 1))

\* a variant of FirstFound in which the later pattern decides when it has a number
FirstFoundLater(a, b) == IF b # NoPage THEN b ELSE a

\* the first pattern that returns a number decides
FirstFound(a, b) == IF a # NoPage THEN a ELSE b

\* pdf_ingest.py:64-90: the patterns that read lines
LinePatterns(lines, pdf_page_num) ==
    FirstFound(LastLinesNumber(lines, 3, pdf_page_num),
               TrailingNumber(Strip(lines[Len(lines)]), pdf_page_num))

\* pdf_ingest.py:30-90
extract_page_number_from_text(text, pdf_page_index) ==
    IF text = <<>> THEN NoPage
    ELSE FirstFound(FooterLabel(text),
                    LinePatterns(SplitLines(text), pdf_page_index + 1))

----------------------------------------------------------------------------
(* pdf_ingest.py: extract_section_number *)

\* Python None for a section label taken from text
NoLabel == <<>>

\* end of (?:\.\d+){0,left} from position j
RECURSIVE DotGroupsEnd(_, _, _)
DotGroupsEnd(t, j, left) ==
    IF /\ left > 0 /\ j <= Len(t) /\ t[j] = "."
       /\ RunEnd(t, j + 1, Digits) > j + 1
    THEN DotGroupsEnd(t, RunEnd(t, j + 1, Digits), left - 1)
    ELSE j

\* \d+(?:\.\d+){lo,hi} at position k: the end of the match, 0 without one
NumberEnd(t, k, lo, hi) ==
    IF RunEnd(t, k, Digits) = k THEN 0
    ELSE IF Cardinality({m \in RunEnd(t, k, Digits)..
                                (DotGroupsEnd(t, RunEnd(t, k, Digits), hi) - 1) :
                            t[m] = "."}) < lo
         THEN 0
         ELSE DotGroupsEnd(t, RunEnd(t, k, Digits), hi)

\* position behind the keyword (and the "." that may follow it) at i, else 0
KeywordEnd(t, i, keys, dotted) ==
    IF t[i] \notin keys THEN 0
    ELSE IF t[i] \in dotted /\ i + 1 <= Len(t) /\ t[i + 1] = "." THEN i + 2
    ELSE i + 1

\* keyword, at least ws blanks, number: the captured label of the match at i
SectionMatchAt(t, i, keys, dotted, ws, lo, hi) ==
    IF KeywordEnd(t, i, keys, dotted) = 0 THEN NoLabel
    ELSE IF RunEnd(t, KeywordEnd(t, i, keys, dotted), Whitespace)
                - KeywordEnd(t, i, keys, dotted) < ws
         THEN NoLabel
    ELSE IF NumberEnd(t, RunEnd(t, KeywordEnd(t, i, keys, dotted), Whitespace),
                      lo, hi) = 0
         THEN NoLabel
    ELSE SubSeq(t, RunEnd(t, KeywordEnd(t, i, keys, dotted), Whitespace),
                NumberEnd(t, RunEnd(t, KeywordEnd(t, i, keys, dotted), Whitespace),
                          lo, hi) - 1)

\* re.search: the match at the leftmost position that has one
SectionSearch(t, keys, dotted, ws, lo, hi) ==
    IF \A i \in 1..Len(t) : SectionMatchAt(t, i, keys, dotted, ws, lo, hi) = NoLabel
    THEN NoLabel
    ELSE SectionMatchAt(t, Min({i \in 1..Len(t) :
                                   SectionMatchAt(t, i, keys, dotted, ws, lo, hi)
                                       # NoLabel}),
                        keys, dotted, ws, lo, hi)

\* a variant of extract_section_number that tries the Chapter pattern first
extract_section_number_chapter_first(text) ==
    IF SectionSearch(text, {"Chapter"}, {}, 1, 0, 1) # NoLabel
    THEN SectionSearch(text, {"Chapter"}, {}, 1, 0, 1)
    ELSE IF SectionSearch(text, {"Section", "Sec"}, {"Sec"}, 1, 1, 3) # NoLabel
    THEN SectionSearch(text, {"Section", "Sec"}, {"Sec"}, 1, 1, 3)
    ELSE IF SectionSearch(text, {"Art", "Article"}, {"Art"}, 1, 1, 2) # NoLabel
    THEN SectionSearch(text, {"Art", "Article"}, {"Art"}, 1, 1, 2)
    ELSE SectionSearch(text, {"SectionSign"}, {}, 0, 1, 3)

\* pdf_ingest.py:93-133
extract_section_number(text) ==
    IF SectionSearch(text, {"Section", "Sec"}, {"Sec"}, 1, 1, 3) # NoLabel
    THEN SectionSearch(text, {"Section", "Sec"}, {"Sec"}, 1, 1, 3)
    ELSE IF SectionSearch(text, {"Chapter"}, {}, 1, 0, 1) # NoLabel
    THEN SectionSearch(text, {"Chapter"}, {}, 1, 0, 1)
    ELSE IF SectionSearch(text, {"Art", "Article"}, {"Art"}, 1, 1, 2) # NoLabel
    THEN SectionSearch(text, {"Art", "Article"}, {"Art"}, 1, 1, 2)
    ELSE SectionSearch(text, {"SectionSign"}, {}, 0, 1, 3)

----------------------------------------------------------------------------
(* RecursiveCharacterTextSplitter(chunk_size, chunk_overlap), as            *)
(* chunk_documents configures it (pdf_ingest.py:171-175): separators         *)
(* "\n\n", "\n", " ", "", the separator kept at the start of the piece that  *)
(* follows it, chunks stripped.  The pages of the model hold no run of       *)
(* letters as long as a chunk, so the "" separator, which splits into        *)
(* characters, only ever meets one-character atoms.                          *)

Separators == <<<<"NL", "NL">>, <<"NL">>, <<" ">>, <<>>>>

\* first position >= i where sep occurs in t, 0 when there is none
FindSep(t, i, sep) ==
    IF \E j \in i..(Len(t) - Len(sep) + 1) : SubSeq(t, j, j + Len(sep) - 1) = sep
    THEN Min({j \in i..(Len(t) - Len(sep) + 1) : SubSeq(t, j, j + Len(sep) - 1) = sep})
    ELSE 0

\* re.split with the separator glued to the piece behind it
RECURSIVE SplitAt(_, _, _)
SplitAt(t, from, sep) ==
    IF FindSep(t, from, sep) = 0 THEN <<t>>
    ELSE <<SubSeq(t, 1, FindSep(t, from, sep) - 1)>>
         \o SplitAt(SubSeq(t, FindSep(t, from, sep), Len(t)), Len(sep) + 1, sep)

NonEmpty(piece) == piece # <<>>

\* _split_text_with_regex(text, separator, keep_separator=True)
SplitKeep(t, sep) ==
    IF sep = <<>> THEN [i \in 1..Len(t) |-> <<t[i]>>]
    ELSE SelectSeq(SplitAt(t, 1, sep), NonEmpty)

\* _join_docs with separator "": the stripped text, dropped when empty
JoinDocs(docs, cur) ==
    IF Strip(Concat(cur)) = <<>> THEN docs ELSE Append(docs, Strip(Concat(cur)))

\* the while loop of _merge_splits: pieces leave the front of current_doc
RECURSIVE PopFront(_, _, _, _)
PopFront(cur, len, size, overlap) ==
    IF \/ TextLen(Concat(cur)) > overlap
       \/ (TextLen(Concat(cur)) + len > size /\ TextLen(Concat(cur)) > 0)
    THEN PopFront(Tail(cur), len, size, overlap)
    ELSE cur

\* _merge_splits(splits, ""): pieces are gathered up to chunk_size, and a
\* chunk starts with the tail of the one before it, up to chunk_overlap
RECURSIVE MergeSplits(_, _, _, _, _)
MergeSplits(splits, cur, docs, size, overlap) ==
    IF splits = <<>> THEN JoinDocs(docs, cur)
    ELSE IF TextLen(Concat(cur)) + TextLen(Head(splits)) > size /\ cur # <<>>
         THEN MergeSplits(Tail(splits),
                          Append(PopFront(cur, TextLen(Head(splits)), size, overlap),
                                 Head(splits)),
                          JoinDocs(docs, cur), size, overlap)
         ELSE MergeSplits(Tail(splits), Append(cur, Head(splits)), docs, size, overlap)

\* index of the separator _split_text picks: the first one found in the text
PickSeparator(text, seps) ==
    Min({i \in 1..Len(seps) : seps[i] = <<>> \/ FindSep(text, 1, seps[i]) # 0}
        \cup {Len(seps)})

Flush(final, good, size, overlap) ==
    IF good = <<>> THEN final ELSE final \o MergeSplits(good, <<>>, <<>>, size, overlap)

\* RecursiveCharacterTextSplitter._split_text
RECURSIVE SplitText(_, _, _, _)
RECURSIVE SplitLoop(_, _, _, _, _, _)
SplitLoop(splits, good, final, new_seps, size, overlap) ==
    IF splits = <<>> THEN Flush(final, good, size, overlap)
    ELSE IF TextLen(Head(splits)) < size
         THEN SplitLoop(Tail(splits), Append(good, Head(splits)), final,
                        new_seps, size, overlap)
    ELSE IF new_seps = <<>>
         THEN SplitLoop(Tail(splits), <<>>,
                        Append(Flush(final, good, size, overlap), Head(splits)),
                        new_seps, size, overlap)
    ELSE SplitLoop(Tail(splits), <<>>,
                   Flush(final, good, size, overlap)
                       \o SplitText(Head(splits), new_seps, size, overlap),
                   new_seps, size, overlap)

SplitText(text, seps, size, overlap) ==
    SplitLoop(SplitKeep(text, seps[PickSeparator(text, seps)]), <<>>, <<>>,
              SubSeq(seps, PickSeparator(text, seps) + 1, Len(seps)),
              size, overlap)

----------------------------------------------------------------------------
(* Pages fed to the ingestion *)

\* lines of a page
MaxLines == 3

PageLines ==
    {<<"1", "2", "5">>, <<"7">>, <<"0", "0", "0", "0", "7">>,
     <<"Page", " ", "7", "0", "0">>, <<"Page", " ", "2", "0", "0", "1">>,
     <<"p", ".", " ", "3">>, <<"x", "p">>, <<"x", " ", "1", "2">>,
     <<"F">>, <<>>, <<"Section", " ", "5", ".", "2">>,
     <<"Chapter", " ", "3">>, <<"Art", ".", " ", "4", ".", "1">>,
     <<"SectionSign", "6", ".", "1">>}

\* "\n".join(lines)
RECURSIVE JoinLines(_)
JoinLines(ls) ==
    IF ls = <<>> THEN <<>>
    ELSE IF Len(ls) = 1 THEN ls[1]
    ELSE ls[1] \o <<"NL">> \o JoinLines(Tail(ls))

PageTexts == {JoinLines(ls) : ls \in UNION {[1..n -> PageLines] : n \in 1..MaxLines}}

\* doc.metadata["page"] of the pages looked at: the 0-based index PyMuPDFLoader sets
PageIndexes == {0, 24, 130}

\* single-line pages of the two-page documents
SmallPageLines == {<<"7">>, <<"x">>, <<"Section", " ", "5", ".", "2">>}

\* the documents load_pdf returns: one page at some index of its file, or
\* two pages that follow each other
PageLists ==
    {<<[page |-> i, page_content |-> t]>> : i \in PageIndexes, t \in PageTexts}
    \cup {<<[page |-> i, page_content |-> t1], [page |-> i + 1, page_content |-> t2]>> :
              i \in PageIndexes, t1 \in SmallPageLines, t2 \in SmallPageLines}

\* (chunk_size, chunk_overlap): the defaults of pdf_ingest.py:138-139 and two
\* sizes that split the long pages
ChunkConfigs == {<<1000, 100>>, <<250, 50>>, <<210, 20>>}

----------------------------------------------------------------------------
(* SpecIngest: load_pdf, chunk_documents, ingest_pdf *)

\* pdf_ingest.py:159-169: page_number_map, filled page by page
\* pdf_ingest.py:165-169: a number is stored when it is truthy and in 1..5000
StorePageNumber(m, pdf_page_index, page_doc) ==
    IF page_doc # NoPage /\ 1 <= page_doc /\ page_doc <= MaxMappedPage
    THEN MapPut(m, pdf_page_index, page_doc)
    ELSE m

RECURSIVE BuildPageNumberMap(_, _)
BuildPageNumberMap(docs, m) ==
    IF docs = <<>> THEN m
    ELSE BuildPageNumberMap(Tail(docs),
             StorePageNumber(m, Head(docs).page,
                 extract_page_number_from_text(Head(docs).page_content,
                                               Head(docs).page)))

\* split_documents: the pieces of each page, in page order, each with a copy
\* of the metadata of its page
PiecesOf(doc, texts) ==
    [k \in 1..Len(texts) |-> [page |-> doc.page, page_content |-> texts[k]]]

RECURSIVE SplitDocuments(_, _, _)
SplitDocuments(docs, size, overlap) ==
    IF docs = <<>> THEN <<>>
    ELSE PiecesOf(Head(docs), SplitText(Head(docs).page_content, Separators,
                                        size, overlap))
         \o SplitDocuments(Tail(docs), size, overlap)

\* pdf_ingest.py:189-192
PageDocumentOf(pdf_page_index, m) ==
    IF pdf_page_index \in DOMAIN m THEN m[pdf_page_index] ELSE NoPage

\* a variant of PreferredPage that adds one to the PDF page when it falls back
PreferredPagePlusOne(page_document, page_pdf) ==
    IF page_document # NoPage THEN page_document ELSE page_pdf + 1

\* pdf_ingest.py:195: page_document or page_pdf
PreferredPage(page_document, page_pdf) ==
    IF page_document # NoPage THEN page_document ELSE page_pdf

\* a variant of ChunkMetadata that recovers page_document from the chunk's own text
ChunkMetadataOwnText(piece, m) ==
    [page_content |-> piece.page_content,
     page_pdf |-> piece.page + 1,
     page_document |-> extract_page_number_from_text(piece.page_content, piece.page),
     page |-> PreferredPage(extract_page_number_from_text(piece.page_content,
                                                          piece.page),
                            piece.page + 1),
     section |-> extract_section_number(piece.page_content)]

\* pdf_ingest.py:178-202: the metadata of one chunk
ChunkMetadata(piece, m) ==
    [page_content |-> piece.page_content,
     page_pdf |-> piece.page + 1,
     page_document |-> PageDocumentOf(piece.page, m),
     page |-> PreferredPage(PageDocumentOf(piece.page, m), piece.page + 1),
     section |-> extract_section_number(piece.page_content)]

\* pdf_ingest.py:178-204: the loop over the chunks
SetMetadata(pieces, m) == [k \in 1..Len(pieces) |-> ChunkMetadata(pieces[k], m)]

\* pdf_ingest.py:136-204
chunk_documents(docs, size, overlap) ==
    SetMetadata(SplitDocuments(docs, size, overlap), BuildPageNumberMap(docs, EmptyMap))

\* a variant of PagesAfterChunking in which a chunk shares the metadata of its
\* page, so that the "page" written for the chunk shows in the page
PagesAfterChunkingShared(docs, cs) ==
    [q \in 1..Len(docs) |->
        IF \E k \in 1..Len(cs) : cs[k].page_pdf = docs[q].page + 1
        THEN [page |-> cs[CHOOSE k \in 1..Len(cs) :
                              cs[k].page_pdf = docs[q].page + 1].page,
              page_content |-> docs[q].page_content]
        ELSE docs[q]]

\* pdf_ingest.py:176-202: the input list after the call. split_documents
\* gives every chunk a copy of the metadata of its page, and lines 178-202
\* write to the chunks only
PagesAfterChunking(docs, cs) == docs

\* pdf_ingest.py:235-240: source and chunk_index are added to every chunk
TagChunks(cs, source) ==
    [k \in 1..Len(cs) |->
        [page_content |-> cs[k].page_content, page_pdf |-> cs[k].page_pdf,
         page_document |-> cs[k].page_document, page |-> cs[k].page,
         section |-> cs[k].section, source |-> source, chunk_index |-> k - 1]]

\* Path(file_path).stem of the file ingested
FileStem == "A"

InitIngest ==
    /\ ChatIdle /\ FixIdle /\ VsIdle /\ RestIdle
    /\ ing_pc = "start"
    /\ chunk_args = <<>>
    /\ pages = <<>>
    /\ chunks = <<>>

\* pdf_ingest.py:14-27
LoadPdf ==
    /\ ing_pc = "start"
    /\ pages' \in PageLists
    /\ ing_pc' = "loaded"
    /\ UNCHANGED <<chunk_args, chunks, chat_vars, fix_vars, vs_vars, rest_vars>>

\* chunk_documents called on loaded pages
ChunkDocuments ==
    /\ ing_pc = "loaded"
    /\ \E cfg \in ChunkConfigs :
          /\ chunks' = chunk_documents(pages, cfg[1], cfg[2])
          /\ chunk_args' = cfg
    /\ pages' = PagesAfterChunking(pages, chunks')
    /\ ing_pc' = "chunked"
    /\ UNCHANGED <<chat_vars, fix_vars, vs_vars, rest_vars>>

\* chunk_documents called once more on the same list of pages, with the same
\* chunk_size and chunk_overlap
ChunkDocumentsAgain ==
    /\ ing_pc = "chunked"
    /\ chunks' = chunk_documents(pages, chunk_args[1], chunk_args[2])
    /\ pages' = PagesAfterChunking(pages, chunks')
    /\ ing_pc' = "rechunked"
    /\ UNCHANGED <<chunk_args, chat_vars, fix_vars, vs_vars, rest_vars>>

\* pdf_ingest.py:207-242: load, chunk and tag in one call
IngestPdf ==
    /\ ing_pc = "start"
    /\ \E ps \in PageLists, cfg \in ChunkConfigs :
          /\ pages' = ps
          /\ chunks' = TagChunks(chunk_documents(ps, cfg[1], cfg[2]), FileStem)
    /\ ing_pc' = "ingested"
    /\ UNCHANGED <<chunk_args, chat_vars, fix_vars, vs_vars, rest_vars>>

NextIngest == LoadPdf \/ ChunkDocuments \/ ChunkDocumentsAgain \/ IngestPdf

SpecIngest == InitIngest /\ [][NextIngest]_vars

----------------------------------------------------------------------------
(* SpecDesign: design_loader.py.  A CSV file is [exists, rows, mtime]; a row *)
(* of rooms.csv is the id of the room it describes, or "bad" for a row whose *)
(* fields do not parse (design_loader.py:83-96).                             *)

\* modifications of the CSV files in one run
MaxWrites == 2
\* design_loader.py:39: @lru_cache(maxsize=2)
RoomsCacheSize == 2

\* the csv_path arguments callers pass: None, the default file by its path,
\* another file
RoomArgs == {"None", "rooms.csv", "alt.csv"}

\* design_loader.py:63-67: None stands for DATA_DIR / "rooms.csv"
ResolvePath(csv_path) == IF csv_path = "None" THEN "rooms.csv" ELSE csv_path

\* contents a rooms CSV can have
RoomRows == {<<>>, <<"R1">>, <<"R2">>, <<"R1", "R2">>, <<"R1", "bad">>}

NoFile == [exists |-> FALSE, rows |-> <<>>, mtime |-> 0]

\* design_loader.py:72-104: the body of load_rooms on the file as it is now
ReadRooms(file) ==
    IF ~file.exists THEN [status |-> "FileNotFoundError", rooms |-> <<>>]
    ELSE IF \E i \in 1..Len(file.rows) : file.rows[i] = "bad"
         THEN [status |-> "ValueError", rooms |-> <<>>]
         ELSE [status |-> "ok", rooms |-> file.rows]

\* functools.lru_cache: the entry of a new key goes in as most recently used
\* and the least recently used entries beyond maxsize go out
CachePut(cache, entry) ==
    LET all == Append(cache, entry)
    IN SubSeq(all, Max({1, Len(all) - RoomsCacheSize + 1}), Len(all))

\* functools.lru_cache keys an entry by the arguments of the call
CacheHit(cache, key) == {i \in 1..Len(cache) : cache[i].key = key}

InitDesign ==
    /\ ChatIdle /\ FixIdle /\ VsIdle /\ IngIdle /\ ComplianceIdle /\ MoreIdle
    /\ des_pc = "ready"
    /\ files \in [{"rooms.csv", "alt.csv"} ->
                     {NoFile} \cup {[exists |-> TRUE, rows |-> r, mtime |-> 0] :
                                       r \in RoomRows}]
    /\ rooms_cache = <<>>
    /\ load_result = [op |-> "none", status |-> "none", rooms |-> <<>>, disk |-> NoFile]

\* the CSV at a path is written with other rows; its modification time advances
WriteRooms ==
    /\ des_pc = "ready"
    /\ files["rooms.csv"].mtime + files["alt.csv"].mtime < MaxWrites
    /\ \E path \in DOMAIN files, r \in RoomRows :
          /\ ~files[path].exists \/ r # files[path].rows
          /\ files' = [files EXCEPT ![path] = [exists |-> TRUE, rows |-> r,
                                               mtime |-> files[path].mtime + 1]]
    /\ UNCHANGED <<des_pc, rooms_cache, load_result, chat_vars, fix_vars, vs_vars, ing_vars, cmp_vars,
                   more_vars>>

\* design_loader.py:39-104: load_rooms(csv_path) behind lru_cache.  A call with
\* cached arguments returns the cached tuple without running the body; a
\* call that raises caches nothing.  disk records the file as it is at the
\* time of the call.
LoadRooms ==
    /\ des_pc = "ready"
    /\ \E csv_path \in RoomArgs :
          LET hit == CacheHit(rooms_cache, csv_path)
              disk == files[ResolvePath(csv_path)]
              read == ReadRooms(disk)
          IN IF hit # {}
             THEN /\ load_result' = [op |-> "load_rooms", status |-> "ok",
                                     rooms |-> rooms_cache[Min(hit)].value,
                                     disk |-> disk]
                  /\ rooms_cache' =
                        [j \in 1..Len(rooms_cache) |->
                            IF j < Min(hit) THEN rooms_cache[j]
                            ELSE IF j < Len(rooms_cache) THEN rooms_cache[j + 1]
                            ELSE rooms_cache[Min(hit)]]
             ELSE /\ load_result' = [op |-> "load_rooms", status |-> read.status,
                                     rooms |-> read.rooms, disk |-> disk]
                  /\ rooms_cache' =
                        IF read.status = "ok"
                        THEN CachePut(rooms_cache, [key |-> csv_path, value |-> read.rooms])
                        ELSE rooms_cache
    /\ UNCHANGED <<des_pc, files, chat_vars, fix_vars, vs_vars, ing_vars, cmp_vars,
                   more_vars>>

\* design_loader.py:243-257: load_rooms.cache_clear(), then
\* load_doors.cache_clear(), which load_doors, not being cached, does not have
ClearCache ==
    /\ des_pc = "ready"
    /\ rooms_cache' = <<>>
    /\ load_result' = [op |-> "clear_cache", status |-> "AttributeError",
                       rooms |-> <<>>, disk |-> NoFile]
    /\ UNCHANGED <<des_pc, files, chat_vars, fix_vars, vs_vars, ing_vars, cmp_vars,
                   more_vars>>

\* a row of a doors CSV: the room the door refers to, and whether the fields
\* of the row parse into a Door (design_loader.py:166-172)
DoorRow(location_room_id, parses) ==
    [location_room_id |-> location_room_id, parses |-> parses]

\* the doors.csv found by one call: no file, or up to two rows
DoorFiles ==
    {[exists |-> FALSE, rows |-> <<>>]}
    \cup {[exists |-> TRUE, rows |-> rows] :
             rows \in {<<>>,
                       <<DoorRow("R1", TRUE)>>,
                       <<DoorRow("R1", FALSE)>>,
                       <<DoorRow("R1", TRUE), DoorRow("R9", TRUE)>>,
                       <<DoorRow("R9", TRUE), DoorRow("R2", TRUE)>>,
                       <<DoorRow("R9", TRUE), DoorRow("R1", FALSE)>>}}

\* room_ids: Set[str] | None, as <<the set>> or <<>> for None
NoRoomIds == <<>>

\* design_loader.py:155-185: the loop over the rows, row i being row i + 1 of
\* the file.  A reference to an unknown room is noted and the loop goes on; a
\* row that does not parse raises at once, naming that row only; the noted
\* references are raised after the last row.
RECURSIVE ScanDoors(_, _, _, _, _)
ScanDoors(rows, i, room_ids, doors, invalid_refs) ==
    IF i > Len(rows)
    THEN IF invalid_refs # <<>>
         THEN [status |-> "ValueError", doors |-> <<>>, reported |-> invalid_refs]
         ELSE [status |-> "ok", doors |-> doors, reported |-> <<>>]
    ELSE IF ~rows[i].parses
         THEN [status |-> "ValueError", doors |-> <<>>, reported |-> <<i + 1>>]
         ELSE ScanDoors(rows, i + 1, room_ids,
                  Append(doors, rows[i].location_room_id),
                  IF room_ids # NoRoomIds /\ rows[i].location_room_id \notin room_ids[1]
                  THEN Append(invalid_refs, i + 1) ELSE invalid_refs)

\* design_loader.py:110-192
load_doors(file, room_ids) ==
    IF ~file.exists
    THEN [status |-> "FileNotFoundError", doors |-> <<>>, reported |-> <<>>]
    ELSE ScanDoors(file.rows, 1, room_ids, <<>>, <<>>)

\* design_loader.py:224: load_rooms(rooms_path) with rooms_path = None, behind
\* the lru_cache: the outcome and the cache after the call
CachedLoadRooms(cache, disk) ==
    IF CacheHit(cache, "None") # {}
    THEN [status |-> "ok", rooms |-> cache[Min(CacheHit(cache, "None"))].value,
          cache |-> [j \in 1..Len(cache) |->
                        IF j < Min(CacheHit(cache, "None")) THEN cache[j]
                        ELSE IF j < Len(cache) THEN cache[j + 1]
                        ELSE cache[Min(CacheHit(cache, "None"))]]]
    ELSE [status |-> ReadRooms(disk).status, rooms |-> ReadRooms(disk).rooms,
          cache |-> IF ReadRooms(disk).status = "ok"
                    THEN CachePut(cache, [key |-> "None", value |-> ReadRooms(disk).rooms])
                    ELSE cache]

\* design_loader.py:198-237: rooms first; an exception of load_rooms ends the
\* call before doors.csv is opened
load_design(loaded, door_file, valid_references) ==
    IF loaded.status # "ok"
    THEN [status |-> loaded.status, rooms_status |-> loaded.status,
          rooms |-> <<>>, doors |-> <<>>, reported |-> <<>>]
    ELSE [rooms_status |-> "ok",
          status |-> load_doors(door_file,
                        IF valid_references
                        THEN <<{loaded.rooms[i] : i \in 1..Len(loaded.rooms)}>>
                        ELSE NoRoomIds).status,
          rooms |-> loaded.rooms,
          doors |-> load_doors(door_file,
                        IF valid_references
                        THEN <<{loaded.rooms[i] : i \in 1..Len(loaded.rooms)}>>
                        ELSE NoRoomIds).doors,
          reported |-> load_doors(door_file,
                        IF valid_references
                        THEN <<{loaded.rooms[i] : i \in 1..Len(loaded.rooms)}>>
                        ELSE NoRoomIds).reported]

\* load_design() called with the default paths
LoadDesign ==
    /\ des_pc = "ready"
    /\ \E door_file \in DoorFiles, valid_references \in BOOLEAN :
          load_result' =
              [op |-> "load_design",
               out |-> load_design(CachedLoadRooms(rooms_cache, files["rooms.csv"]),
                                   door_file, valid_references),
               valid_references |-> valid_references,
               disk |-> files["rooms.csv"],
               door_file |-> door_file]
    /\ rooms_cache' = CachedLoadRooms(rooms_cache, files["rooms.csv"]).cache
    /\ UNCHANGED <<des_pc, files, chat_vars, fix_vars, vs_vars, ing_vars, cmp_vars,
                   more_vars>>

\* issues.py:14-17: the APIRouter is constructed and not bound to a name
RouterBound == FALSE

\* no response of the handler
NoHttp == 0

\* issues.py:58-87: the status get_issues answers with
HttpStatus(status) ==
    IF status = "ok" THEN 200
    ELSE IF status = "FileNotFoundError" THEN 404
    ELSE IF status = "ValueError" THEN 400
    ELSE 500

\* GET /api/issues.  The decorator of issues.py:23 looks up "router" when the
\* module is imported (main.py:9); with the name unbound the import stops with
\* a NameError, get_issues is never registered and its body never runs.
GetIssues ==
    /\ des_pc = "ready"
    /\ \E door_file \in IF RouterBound THEN DoorFiles ELSE {[exists |-> FALSE, rows |-> <<>>]} :
          IF RouterBound
          THEN /\ load_result' =
                     [op |-> "get_issues",
                      out |-> load_design(CachedLoadRooms(rooms_cache, files["rooms.csv"]),
                                          door_file, TRUE),
                      http |-> HttpStatus(
                          load_design(CachedLoadRooms(rooms_cache, files["rooms.csv"]),
                                      door_file, TRUE).status),
                      disk |-> files["rooms.csv"],
                      door_file |-> door_file]
               /\ rooms_cache' = CachedLoadRooms(rooms_cache, files["rooms.csv"]).cache
          ELSE /\ load_result' =
                     [op |-> "get_issues",
                      out |-> [status |-> "NameError", rooms_status |-> "none",
                               rooms |-> <<>>, doors |-> <<>>, reported |-> <<>>],
                      http |-> NoHttp,
                      disk |-> files["rooms.csv"],
                      door_file |-> door_file]
               /\ rooms_cache' = rooms_cache
    /\ UNCHANGED <<des_pc, files, chat_vars, fix_vars, vs_vars, ing_vars, cmp_vars,
                   more_vars>>

NextDesign == WriteRooms \/ LoadRooms \/ ClearCache \/ LoadDesign \/ GetIssues

SpecDesign == InitDesign /\ [][NextDesign]_vars

----------------------------------------------------------------------------
(* SpecStartup: chat.py:89-129 and 263-281 under concurrent first requests.  *)
(* chat is a plain def, which the framework runs in worker threads; a thread *)
(* may be preempted between any two of the steps below.  The embedding       *)
(* service and the PDFs are in order: no step raises.                        *)

\* requests that arrive while the process has no index yet
MaxThreads == 3
\* PDF files in app/data
MaxPdfs == 2

\* chat.py:89: _vector_store = None
NoStore == 0

InitStartup ==
    /\ ChatIdle /\ FixIdle /\ VsIdle /\ IngIdle /\ DesignIdle /\ ComplianceIdle
    /\ RulesIdle
    /\ vector_store_global = NoStore
    /\ stores = <<>>
    /\ threads = [t \in 1..MaxThreads |->
                     [pc |-> "start", i |-> 0, local |-> NoStore, got |-> <<>>,
                      busy |-> FALSE]]

\* chat.py:106: if _vector_store is None
TestNone(t) ==
    /\ threads[t].pc = "start"
    /\ threads' = [threads EXCEPT ![t].pc = IF vector_store_global = NoStore
                                            THEN "construct" ELSE "return"]
    /\ UNCHANGED <<vector_store_global, stores, not_st_vars>>

\* chat.py:108: _vector_store = VectorStore(), an instance without documents
Construct(t) ==
    /\ threads[t].pc = "construct"
    /\ stores' = Append(stores, <<>>)
    /\ vector_store_global' = Len(stores) + 1
    /\ threads' = [threads EXCEPT ![t].pc = "index"]
    /\ UNCHANGED not_st_vars

\* chat.py:117-123: one round of the loop over pdf_files; add_documents goes
\* to the instance the global name refers to at that moment
IndexPdf(t) ==
    /\ threads[t].pc = "index"
    /\ threads[t].i < MaxPdfs
    /\ stores' = [stores EXCEPT ![vector_store_global] = Append(@, threads[t].i + 1)]
    /\ threads' = [threads EXCEPT ![t].i = @ + 1]
    /\ UNCHANGED <<vector_store_global, not_st_vars>>

\* chat.py:117: the loop is over
IndexDone(t) ==
    /\ threads[t].pc = "index"
    /\ threads[t].i = MaxPdfs
    /\ threads' = [threads EXCEPT ![t].pc = "return"]
    /\ UNCHANGED <<vector_store_global, stores, not_st_vars>>

\* chat.py:129: return _vector_store
ReturnStore(t) ==
    /\ threads[t].pc = "return"
    /\ threads' = [threads EXCEPT ![t].pc = "have", ![t].local = vector_store_global]
    /\ UNCHANGED <<vector_store_global, stores, not_st_vars>>

\* chat.py:269-274: get_retriever builds the BM25 index over the documents the
\* instance holds now, and invoke retrieves from them; busy records whether
\* another thread is still between VectorStore() and the end of its loop
Retrieve(t) ==
    /\ threads[t].pc = "have"
    /\ threads' = [threads EXCEPT
                      ![t].pc = "done",
                      ![t].got = stores[threads[t].local],
                      ![t].busy = \E u \in 1..MaxThreads :
                                     /\ u # t /\ threads[u].pc = "index"
                                     /\ threads[u].i < MaxPdfs]
    /\ UNCHANGED <<vector_store_global, stores, not_st_vars>>

NextStartup ==
    \E t \in 1..MaxThreads :
        \/ TestNone(t) \/ Construct(t) \/ IndexPdf(t) \/ IndexDone(t)
        \/ ReturnStore(t) \/ Retrieve(t)

SpecStartup == InitStartup /\ [][NextStartup]_vars

----------------------------------------------------------------------------
(* SpecRules: rule_extractor.py:241-303.  A rule id is [prefix, num]: "R001" *)
(* is ["R", 1] and f"{prefix}{n:03d}" is [prefix, n].                        *)

\* PDF paths passed to one extract_rules_from_pdfs call
MaxRulePdfs == 2
\* rules extract_rules_from_pdf returns for one PDF
MaxExtracted == 2

RuleId(prefix, num) == [prefix |-> prefix, num |-> num]

\* rule_extractor.py:288: the ids of the seeded rules
SeededIds == {RuleId("R", 1), RuleId("R", 2), RuleId("D", 1), RuleId("D", 2)}

\* rule_extractor.py:268: rule_counter = {"R": 100, "D": 100}
FirstExtractedNum == 100

\* the rules the model may return for a PDF: the id it chose and the
\* element type
ExtractedRules ==
    [id : {RuleId("R", 1), RuleId("R", 3), RuleId("R", 100), RuleId("D", 100)},
     element_type : {"room", "door"}]

\* rule_extractor.py:285-298: one rule of the inner loop; st is all_rules,
\* seen_rule_ids and rule_counter
AddRule(st, rule) ==
    LET conflict == rule.id \in st.seen \/ rule.id \in SeededIds
        prefix == IF rule.element_type = "room" THEN "R" ELSE "D"
        id == IF conflict THEN RuleId(prefix, st.counter[prefix]) ELSE rule.id
        counter == IF conflict
                   THEN [st.counter EXCEPT ![prefix] = @ + 1]
                   ELSE st.counter
    IN IF id \notin st.seen
       THEN [all_rules |-> Append(st.all_rules,
                                  [id |-> id, element_type |-> rule.element_type,
                                   original_id |-> rule.id]),
             seen |-> st.seen \cup {id}, counter |-> counter]
       ELSE [all_rules |-> st.all_rules, seen |-> st.seen, counter |-> counter]

RECURSIVE AddRules(_, _)
AddRules(st, extracted) ==
    IF extracted = <<>> THEN st
    ELSE AddRules(AddRule(st, Head(extracted)), Tail(extracted))

\* rule_extractor.py:270-300: the loop over pdf_paths; a path that does not
\* exist is skipped
RECURSIVE OverPdfs(_, _)
OverPdfs(st, pdfs) ==
    IF pdfs = <<>> THEN st
    ELSE OverPdfs(IF Head(pdfs).exists THEN AddRules(st, Head(pdfs).extracted) ELSE st,
                  Tail(pdfs))

\* rule_extractor.py:241-303
extract_rules_from_pdfs(pdfs) ==
    OverPdfs([all_rules |-> <<>>, seen |-> {},
              counter |-> [p \in {"R", "D"} |-> FirstExtractedNum]], pdfs).all_rules

InitRules ==
    /\ ChatIdle /\ FixIdle /\ VsIdle /\ IngIdle /\ DesignIdle /\ ComplianceIdle
    /\ StartupIdle
    /\ rx_pc = "input"
    /\ rx_in \in SeqsUpTo({[exists |-> FALSE, extracted |-> <<>>]}
                          \cup {[exists |-> TRUE, extracted |-> e] :
                                   e \in SeqsUpTo(ExtractedRules, MaxExtracted)},
                          MaxRulePdfs)
    /\ rx_out = <<>>

ExtractRules ==
    /\ rx_pc = "input"
    /\ rx_out' = extract_rules_from_pdfs(rx_in)
    /\ rx_pc' = "done"
    /\ UNCHANGED <<rx_in, chat_vars, fix_vars, vs_vars, ing_vars, des_vars, cmp_vars,
                   st_vars>>

NextRules == ExtractRules

SpecRules == InitRules /\ [][NextRules]_vars

----------------------------------------------------------------------------
(* SpecCompliance: compliance_checker.py.  Areas are in tenths of a square   *)
(* metre and widths in the same abstract scale: 80, 95 and 100 stand for a   *)
(* value below, at and above a minimum of 95 (8.0, 9.5 and 10.0 m2).         *)

\* rooms passed to one check_compliance call
MaxRooms == 2
\* rules passed to one check_compliance call
MaxRules == 2

\* Python None for Rule.min_value, which is otherwise > 0 (domain.py:82-86)
NoMin == 0

\* the ids of the rules of a list, by position
RuleIds == <<"A", "B", "C">>

\* compliance_checker.py:42-53, 92-103: the Issue of an element and a rule
MakeIssue(element_id, element_type, rule) ==
    [element_id |-> element_id, element_type |-> element_type,
     rule_id |-> rule.id, severity |-> "error"]

\* a variant of check_room_compliance that also reports an area equal to the minimum
RECURSIVE check_room_compliance_at_most(_, _)
check_room_compliance_at_most(room, rules) ==
    IF rules = <<>> THEN <<>>
    ELSE (IF /\ Head(rules).element_type = "room"
             /\ Head(rules).rule_type = "area_min"
             /\ Head(rules).min_value # NoMin
             /\ room.area_m2 <= Head(rules).min_value
          THEN <<MakeIssue(room.id, "room", Head(rules))>> ELSE <<>>)
         \o check_room_compliance_at_most(room, Tail(rules))

\* compliance_checker.py:11-56
RECURSIVE check_room_compliance(_, _)
check_room_compliance(room, rules) ==
    IF rules = <<>> THEN <<>>
    ELSE (IF /\ Head(rules).element_type = "room"
             /\ Head(rules).rule_type = "area_min"
             /\ Head(rules).min_value # NoMin
             /\ room.area_m2 < Head(rules).min_value
          THEN <<MakeIssue(room.id, "room", Head(rules))>> ELSE <<>>)
         \o check_room_compliance(room, Tail(rules))

\* compliance_checker.py:63-106
RECURSIVE check_door_compliance(_, _)
check_door_compliance(door, rules) ==
    IF rules = <<>> THEN <<>>
    ELSE (IF /\ Head(rules).element_type = "door"
             /\ Head(rules).rule_type = "width_min"
             /\ Head(rules).min_value # NoMin
             /\ door.clear_width_mm < Head(rules).min_value
          THEN <<MakeIssue(door.id, "door", Head(rules))>> ELSE <<>>)
         \o check_door_compliance(door, Tail(rules))

\* compliance_checker.py:113-165, with the rules given by the caller
check_compliance(rooms, doors, rules) ==
    Concat([i \in 1..Len(rooms) |-> check_room_compliance(rooms[i], rules)])
    \o Concat([i \in 1..Len(doors) |-> check_door_compliance(doors[i], rules)])

InitCompliance ==
    /\ ChatIdle /\ FixIdle /\ VsIdle /\ IngIdle /\ DesignIdle /\ MoreIdle
    /\ cmp_pc = "input"
    /\ \E rooms \in SeqsUpTo([id : {"R1", "R2"}, area_m2 : {80, 95, 100}], MaxRooms),
          doors \in SeqsUpTo([id : {"D1"}, clear_width_mm : {80, 95, 100}], 1),
          shapes \in SeqsUpTo([rule_type : {"area_min", "width_min", "text"},
                               element_type : {"room", "door"},
                               min_value : {NoMin, 95}], MaxRules) :
          cmp_in = [rooms |-> rooms, doors |-> doors,
                    rules |-> [j \in 1..Len(shapes) |->
                                  [id |-> RuleIds[j],
                                   rule_type |-> shapes[j].rule_type,
                                   element_type |-> shapes[j].element_type,
                                   min_value |-> shapes[j].min_value]]]
    /\ issues = <<>>

\* one call check_compliance(rooms, doors, rules)
CheckCompliance ==
    /\ cmp_pc = "input"
    /\ issues' = check_compliance(cmp_in.rooms, cmp_in.doors, cmp_in.rules)
    /\ cmp_pc' = "checked"
    /\ UNCHANGED <<cmp_in, chat_vars, fix_vars, vs_vars, ing_vars, des_vars, more_vars>>

NextCompliance == CheckCompliance

SpecCompliance == InitCompliance /\ [][NextCompliance]_vars

----------------------------------------------------------------------------
(* Properties of _fix_citations_in_answer (SpecRepair).                     *)
(* A citation of a text is a match of citation_pattern found by re.sub's    *)
(* left-to-right, non-overlapping scan; it is annotated when it contains    *)
(* "(PDF page)" or "(document page)".                                        *)

Carries(txt, type) == Contains(txt, <<"(", type, ")">>)

BothKnown(d) == d.page_pdf # NoPage /\ d.page_document # NoPage

\* piece k of the scan is an unannotated citation of source src and page number n
UnannotatedFor(k, src, n) ==
    /\ fix_out[k].m.ok
    /\ ~HasPageType(fix_out[k].txt)
    /\ fix_out[k].m.source = <<src>>
    /\ fix_out[k].m.page = IntToStr(n)

\* C2 as stated: for any retrieved list containing a chunk of source S with
\* page_pdf = P and page_document = D both known, whatever the other chunks and
\* whether or not P = D, an unannotated citation of (S, P) is rewritten to carry
\* "(PDF page)" and one of (S, D) to carry "(document page)".
C2_AsStated ==
    fix_pc # "input" =>
        \A i \in 1..Len(fix_docs) : \A k \in 1..Len(fix_out) :
            BothKnown(fix_docs[i]) =>
                /\ UnannotatedFor(k, fix_docs[i].source, fix_docs[i].page_pdf)
                       => Carries(fix_out[k].out, PdfType)
                /\ UnannotatedFor(k, fix_docs[i].source, fix_docs[i].page_document)
                       => Carries(fix_out[k].out, DocType)

\* no chunk of the same source at position i or later has d's PDF page as its document page
PdfMappingStands(i) ==
    \A j \in i..Len(fix_docs) :
        fix_docs[j].source = fix_docs[i].source
            => fix_docs[j].page_document # fix_docs[i].page_pdf

\* no later chunk of the same source has d's document page as its PDF page
DocMappingStands(i) ==
    \A j \in (i + 1)..Len(fix_docs) :
        fix_docs[j].source = fix_docs[i].source
            => fix_docs[j].page_pdf # fix_docs[i].page_document

\* C2 amended: the mapping written last wins.  For a chunk of source S with
\* page_pdf = P and page_document = D both known, an unannotated citation of
\* (S, P) is rewritten with "(PDF page)" provided no chunk of S at that position
\* or later in the list (the chunk itself included) has page_document = P, and an
\* unannotated citation of (S, D) is rewritten with "(document page)" provided
\* no later chunk of S has page_pdf = D.
C2_LastMappingWins ==
    fix_pc # "input" =>
        \A i \in 1..Len(fix_docs) : \A k \in 1..Len(fix_out) :
            BothKnown(fix_docs[i]) =>
                /\ (UnannotatedFor(k, fix_docs[i].source, fix_docs[i].page_pdf)
                    /\ PdfMappingStands(i))
                       => fix_out[k].out =
                            CitationText(fix_out[k].m.source, fix_out[k].m.page,
                                         PdfType, fix_out[k].m.section)
                /\ (UnannotatedFor(k, fix_docs[i].source, fix_docs[i].page_document)
                    /\ DocMappingStands(i))
                       => fix_out[k].out =
                            CitationText(fix_out[k].m.source, fix_out[k].m.page,
                                         DocType, fix_out[k].m.section)

\* a chunk with P = D among two retrieved chunks, its citation rewritten as a document page
C2_Witness ==
    /\ fix_pc = "fixed"
    /\ Len(fix_docs) = 2
    /\ \E i \in 1..Len(fix_docs) : \E k \in 1..Len(fix_out) :
          /\ BothKnown(fix_docs[i])
          /\ fix_docs[i].page_pdf = fix_docs[i].page_document
          /\ DocMappingStands(i)
          /\ UnannotatedFor(k, fix_docs[i].source, fix_docs[i].page_document)
          /\ Carries(fix_out[k].out, DocType)

PieceTexts == Concat([k \in 1..Len(fix_out) |-> fix_out[k].txt])

\* C8: a citation that already carries "(PDF page)" or "(document page)" is
\* returned character for character, whatever the retrieved chunks say of its
\* page, and so is every piece of text outside the citations: the result is
\* the input with nothing but its unannotated citations replaced.
C8_AnnotatedAndOutsideUnchanged ==
    fix_pc # "input" =>
        /\ PieceTexts = fix_in
        /\ \A k \in 1..Len(fix_out) :
              (~fix_out[k].m.ok \/ HasPageType(fix_out[k].txt))
                  => fix_out[k].out = fix_out[k].txt
        /\ (\A k \in 1..Len(fix_out) :
                ~fix_out[k].m.ok \/ HasPageType(fix_out[k].txt))
              => FixedText = fix_in

\* a citation annotated "(PDF page)" whose page the chunks know only as a
\* document page, next to text outside it, returned unchanged
C8_Witness ==
    /\ fix_pc = "fixed"
    /\ \E k \in 1..Len(fix_out) : \E i \in 1..Len(fix_docs) :
          /\ fix_out[k].m.ok
          /\ Carries(fix_out[k].txt, PdfType)
          /\ fix_out[k].m.source = <<fix_docs[i].source>>
          /\ fix_out[k].m.page = IntToStr(fix_docs[i].page_document)
          /\ PageTypeMap(fix_docs)[<<fix_out[k].m.source, fix_out[k].m.page>>] = DocType
          /\ fix_out[k].out = fix_out[k].txt
    /\ \E k \in 1..Len(fix_out) : ~fix_out[k].m.ok

\* no retrieved chunk of the citation's source has its page number as page_pdf or page_document
NoChunkFor(m) ==
    \A i \in 1..Len(fix_docs) :
        \/ m.source # <<fix_docs[i].source>>
        \/ /\ (fix_docs[i].page_pdf = NoPage \/ m.page # IntToStr(fix_docs[i].page_pdf))
           /\ (fix_docs[i].page_document = NoPage
               \/ m.page # IntToStr(fix_docs[i].page_document))

\* C9: an unannotated citation whose (source, page number) matches no retrieved
\* chunk is rewritten as [Source: s, Page: n (PDF page)(, Section: x)] with its
\* own source, page number and section; and every citation of the repaired
\* text carries one of the two annotations.
C9_UnknownDefaultsToPdf ==
    fix_pc # "input" =>
        /\ \A k \in 1..Len(fix_out) :
              (fix_out[k].m.ok /\ ~HasPageType(fix_out[k].txt) /\ NoChunkFor(fix_out[k].m))
                  => fix_out[k].out =
                       CitationText(fix_out[k].m.source, fix_out[k].m.page, PdfType,
                                    fix_out[k].m.section)
        /\ LET ps == SubPieces(FixedText, 1, EmptyMap)
           IN \A k \in 1..Len(ps) : ps[k].m.ok => HasPageType(ps[k].txt)

\* an unannotated citation with a section, of a source the retrieved chunks know
\* under other page numbers only, rewritten
C9_Witness ==
    /\ fix_pc = "fixed"
    /\ fix_docs # <<>>
    /\ \E k \in 1..Len(fix_out) :
          /\ fix_out[k].m.ok
          /\ ~HasPageType(fix_out[k].txt)
          /\ NoChunkFor(fix_out[k].m)
          /\ fix_out[k].m.section # <<>>
          /\ \E i \in 1..Len(fix_docs) : fix_out[k].m.source = <<fix_docs[i].source>>
          /\ Carries(fix_out[k].out, PdfType)

----------------------------------------------------------------------------
(* Properties of the chat handler (Spec) *)

\* the key of a returned citation: its source, the page number it shows, its section
ShownKey(c) == <<c.source, c.page.num, c.section>>

\* C1: the citation list of a response never holds two entries with the same
\* key (source, page_document if present else page_pdf, section), however many
\* retrieved chunks share that key.
C1_NoTwoCitationsShareKey ==
    (pc = "done" /\ response.status = 200) =>
        \A i, j \in 1..Len(response.citations) :
            i # j => ShownKey(response.citations[i]) # ShownKey(response.citations[j])

\* two different retrieved chunks with one key, answered with a single citation
C1_Witness ==
    /\ pc = "done" /\ response.status = 200
    /\ Len(retrieved_docs) = 2
    /\ retrieved_docs[1] # retrieved_docs[2]
    /\ CitationKey(retrieved_docs[1]) = CitationKey(retrieved_docs[2])
    /\ Len(response.citations) = 1

\* C3: when the retrieval returns no chunk, the request ends with the fixed
\* fallback answer and an empty citation list, no call of the generation
\* capability and no error, with or without OPENAI_API_KEY.
C3_EmptyRetrievalGivesFallback ==
    (ret_status = "returned" /\ retrieved_docs = <<>>) =>
        /\ pc = "done"
        /\ response = [status |-> 200, answer |-> FallbackAnswer, citations |-> <<>>]
        /\ llm_calls = 0

\* the second request of a process on an empty index, answered by the fallback
C3_Witness ==
    /\ n_requests = 2
    /\ ret_status = "returned" /\ retrieved_docs = <<>>
    /\ pc = "done" /\ response.answer = FallbackAnswer
    /\ response.citations = <<>>
    /\ llm_calls = 0

----------------------------------------------------------------------------
(* Properties of the VectorStore (SpecRetriever) *)

\* C4: in hybrid mode with parameter k the fused result has at most k chunks,
\* whatever the sparse and dense rankings hold.
C4_FusedAtMostK ==
    (retriever # NoRetriever /\ retriever.mode = "hybrid" /\ results.status = "ok")
        => Len(results.docs) <= retriever.k

----------------------------------------------------------------------------
(* Properties of the ingestion (SpecIngest) *)

Chunked == ing_pc \in {"chunked", "rechunked", "ingested"}

LastLine(text) == SplitLines(text)[Len(SplitLines(text))]

\* the page a chunk was split from
PageOfChunk(c) == CHOOSE k \in 1..Len(pages) : pages[k].page + 1 = c.page_pdf

\* the last 200 characters of the text hold "Page" or "p", then nothing but
\* "." and blanks, then the digits of n
ExplicitLabel(text, n) ==
    \E i \in 1..Len(FooterText(text)) :
        /\ FooterText(text)[i] \in {"Page", "p"}
        /\ \E j \in (i + 1)..Len(FooterText(text)), e \in (i + 1)..Len(FooterText(text)) :
              /\ j <= e
              /\ \A m \in (i + 1)..(j - 1) :
                    FooterText(text)[m] \in Whitespace \cup {"."}
              /\ \A m \in j..e : FooterText(text)[m] \in Digits
              /\ StrToInt(SubSeq(FooterText(text), j, e)) = n

\* one page, at PDF index 0, whose last line is exactly "125"
ScenarioA ==
    /\ Chunked
    /\ Len(pages) = 1
    /\ pages[1].page = 0
    /\ LastLine(pages[1].page_content) = <<"1", "2", "5">>

\* C6 as stated: a single page with pdf_page_index = 0 whose last line is
\* exactly "125" yields chunks with page_document = 125 and page_pdf = 1.
C6_AsStated ==
    ScenarioA =>
        /\ chunks # <<>>
        /\ \A k \in 1..Len(chunks) :
              chunks[k].page_document = 125 /\ chunks[k].page_pdf = 1

\* the lines lines[-3:] holds before the last one
LinesBeforeLast(text) ==
    {SplitLines(text)[m] : m \in {q \in 1..(Len(SplitLines(text)) - 1) :
                                     q >= Len(SplitLines(text)) - 2}}

NoLabelWord(text) == \A j \in 1..Len(text) : text[j] \notin {"Page", "p"}

\* C6, amended: every chunk of such a page has page_pdf = 1, and the bare
\* "125" is not taken (it is more than 100 away from PDF page 1):
\* page_document is 125 only when the last 200 characters hold an explicit
\* label "Page 125" / "p. 125"; it is the number of an explicit label or a
\* digits-only line within 100 of 1 among the two lines before the last, and
\* absent when the page has neither.
C6_BareNumberTooFar ==
    ScenarioA =>
        \A k \in 1..Len(chunks) :
              /\ chunks[k].page_pdf = 1
              /\ chunks[k].page_document = 125
                    => ExplicitLabel(pages[1].page_content, 125)
              /\ chunks[k].page_document # NoPage =>
                    \/ ExplicitLabel(pages[1].page_content, chunks[k].page_document)
                    \/ /\ chunks[k].page_document <= 101
                       /\ \E l \in LinesBeforeLast(pages[1].page_content) :
                             /\ IsDigit(Strip(l))
                             /\ StrToInt(Strip(l)) = chunks[k].page_document
              /\ (/\ NoLabelWord(pages[1].page_content)
                  /\ \A l \in LinesBeforeLast(pages[1].page_content) :
                        ~IsDigit(Strip(l)))
                    => chunks[k].page_document = NoPage

\* the page of scenario A with text before the number and no label in it
C6_Witness ==
    /\ ScenarioA
    /\ Len(SplitLines(pages[1].page_content)) >= 2
    /\ NoLabelWord(pages[1].page_content)
    /\ chunks # <<>>
    /\ chunks[1].page_pdf = 1
    /\ chunks[1].page_document = NoPage

----------------------------------------------------------------------------
(* Further properties of the chat handler (Spec) *)

\* the dedup keys of the retrieved chunks are pairwise distinct
DistinctKeys(docs) ==
    \A i, j \in 1..Len(docs) : i # j => CitationKey(docs[i]) # CitationKey(docs[j])

\* the page a citation shows for a chunk: the document page with its label
\* when the chunk has one, the PDF page with its label otherwise
ShownPage(d) ==
    IF d.page_document # NoPage THEN [num |-> d.page_document, type |-> DocType]
    ELSE [num |-> d.page_pdf, type |-> PdfType]

----------------------------------------------------------------------------
(* Further properties of the VectorStore (SpecRetriever) *)

\* C12: on a store to which no chunk was ever added, the retriever that
\* get_retriever hands out returns an empty result and not an error, whatever
\* the mode flags are.
C12_EmptyStoreGivesEmptyResult ==
    (documents = <<>> /\ retriever # NoRetriever /\ results # NoResults)
    => (results.status = "ok" /\ results.docs = <<>>)


\* C13: after any sequence of add_documents calls, failed ones included, the
\* chunk list behind the sparse index and the chunks the dense index holds
\* are the same chunks.
C13_IndicesHoldSameChunks ==
    {documents[i] : i \in 1..Len(documents)}
        = {vectorstore[i] : i \in 1..Len(vectorstore)}


----------------------------------------------------------------------------
(* Error classes and step order of the chat handler (Spec) *)

\* the request failed at get_llm for lack of credentials: retrieval had
\* returned chunks and OPENAI_API_KEY is not set
FailedForCredentials == ret_status = "returned" /\ ~has_key

\* C14: a request that fails because the generation credentials are missing
\* gets the configuration error (400); a request that fails for any other
\* reason (retrieval, the generation call, anything unexpected) gets the
\* generic error (500) and never the configuration error.
C14_OnlyMissingCredentialsGive400 ==
    (pc = "done" /\ response.status \in {400, 500})
    => (response.status = 400 <=> FailedForCredentials)


\* the order of the calls of one request in chat(): chat.py:274, 358, 367, 374
CallOrder == <<"retrieve", "generate", "repair", "cite">>

\* number of times the request made the call e
CallCount(e) == Cardinality({i \in 1..Len(calls) : calls[i] = e})

\* the calls made so far are the first calls of CallOrder, each made once:
\* nothing is made out of order and nothing is retried
InOrderOnce == Len(calls) <= Len(CallOrder) /\ calls = SubSeq(CallOrder, 1, Len(calls))

\* generation only after a non-empty retrieval returned, repair only after
\* the generation returned an answer
StepsWaitForResults ==
    /\ CallCount("generate") > 0 => (ret_status = "returned" /\ retrieved_docs # <<>>)
    /\ CallCount("repair") > 0 => answer \in ChatAnswers

\* C15 as stated: every request makes exactly one retrieval call and at most
\* one generation call, in that order, generation only after a non-empty
\* retrieval, repair only after generation returned, the citation list after
\* the repair, and no step twice.
C15_AsStated ==
    /\ InOrderOnce /\ StepsWaitForResults
    /\ pc = "done" => CallCount("retrieve") = 1

\* C15: every request makes at most one retrieval call, exactly one unless
\* get_vector_store or get_retriever raised before retriever.invoke was
\* reached, and at most one generation call, in that order; generation runs
\* only after a non-empty retrieval returned, repair only after generation
\* returned, the citation list is built after the repair, and no step is
\* made twice.
C15_SingleAttemptInOrder ==
    /\ InOrderOnce /\ StepsWaitForResults
    /\ pc = "done" => (CallCount("retrieve") = 1 <=> ret_status # "unavailable")

\* a request that went through all four steps, after an earlier request of the
\* same process
C15_Witness ==
    /\ pc = "done" /\ response.status = 200 /\ calls = CallOrder /\ n_requests = 2


----------------------------------------------------------------------------
(* Properties of the design loader (SpecDesign) *)

\* C16: load_rooms is cached by file path and modification time: a call made
\* after the CSV at its path was modified returns the rooms of the file as
\* it is now, not the rooms read before the modification.
C16_LoadReturnsCurrentFile ==
    (load_result.op = "load_rooms" /\ load_result.status = "ok"
     /\ ReadRooms(load_result.disk).status = "ok")
    => load_result.rooms = load_result.disk.rows


\* the rows of the doors.csv of the last call, by row number (the header is
\* row 1), whose room is not among the rooms the call loaded
OffendingRows ==
    {i + 1 : i \in {j \in 1..Len(load_result.door_file.rows) :
                       \A r \in 1..Len(load_result.out.rooms) :
                           load_result.out.rooms[r]
                               # load_result.door_file.rows[j].location_room_id}}

\* C24: load_design with reference validation returns only if every loaded
\* door refers to a loaded room; otherwise it raises a ValueError that
\* reports every offending door row; a missing CSV raises FileNotFoundError;
\* GET /api/issues answers 404 to the one and 400 to the other.
C24_ReferencesValidatedAndErrorsMapped ==
    /\ (load_result.op = "load_design" /\ load_result.valid_references)
           => /\ load_result.out.status = "ok"
                    => \A d \in 1..Len(load_result.out.doors) :
                           \E r \in 1..Len(load_result.out.rooms) :
                               load_result.out.rooms[r] = load_result.out.doors[d]
              /\ (load_result.out.rooms_status = "ok" /\ load_result.door_file.exists
                  /\ OffendingRows # {})
                    => /\ load_result.out.status = "ValueError"
                       /\ {load_result.out.reported[k] :
                               k \in 1..Len(load_result.out.reported)} = OffendingRows
              /\ (~load_result.disk.exists
                  \/ (load_result.out.rooms_status = "ok"
                      /\ ~load_result.door_file.exists))
                    => load_result.out.status = "FileNotFoundError"
    /\ load_result.op = "get_issues"
           => /\ ~load_result.disk.exists => load_result.http = 404
              /\ load_result.out.status = "ValueError" => load_result.http = 400

----------------------------------------------------------------------------
(* Properties of the compliance checker (SpecCompliance) *)

\* the rule applies to elements of this type with its numeric check and the
\* measured value is strictly below its minimum
Violates(value, element_type, rule_type, rule) ==
    /\ rule.element_type = element_type /\ rule.rule_type = rule_type
    /\ rule.min_value # NoMin /\ value < rule.min_value

\* the (room, rule) and (door, rule) pairs, by position, that call for an Issue
RoomPairs ==
    {p \in (1..Len(cmp_in.rooms)) \X (1..Len(cmp_in.rules)) :
        Violates(cmp_in.rooms[p[1]].area_m2, "room", "area_min", cmp_in.rules[p[2]])}

DoorPairs ==
    {p \in (1..Len(cmp_in.doors)) \X (1..Len(cmp_in.rules)) :
        Violates(cmp_in.doors[p[1]].clear_width_mm, "door", "width_min",
                 cmp_in.rules[p[2]])}

\* the issues returned for an element id, an element type and a rule id
IssuesFor(element_id, element_type, rule_id) ==
    {k \in 1..Len(issues) : /\ issues[k].element_id = element_id
                            /\ issues[k].element_type = element_type
                            /\ issues[k].rule_id = rule_id}

\* C17: check_compliance returns exactly one Issue, of severity "error" and
\* with the element's id and type, for each (element, rule) pair where the
\* rule is of the element's type, is area_min for a room or width_min for a
\* door, has a min_value, and the measured value is strictly below it; it
\* returns no other Issue, in particular none for a value equal to min_value.
C17_OneIssuePerViolation ==
    cmp_pc = "checked" =>
        /\ Len(issues) = Cardinality(RoomPairs) + Cardinality(DoorPairs)
        /\ \A k \in 1..Len(issues) : issues[k].severity = "error"
        /\ \A p \in RoomPairs :
              Cardinality(IssuesFor(cmp_in.rooms[p[1]].id, "room", cmp_in.rules[p[2]].id))
                  = Cardinality({q \in RoomPairs :
                                    /\ cmp_in.rooms[q[1]].id = cmp_in.rooms[p[1]].id
                                    /\ q[2] = p[2]})
        /\ \A p \in DoorPairs :
              Cardinality(IssuesFor(cmp_in.doors[p[1]].id, "door", cmp_in.rules[p[2]].id))
                  = Cardinality({q \in DoorPairs : q[2] = p[2]})

\* a room of 8.0 m2 and a room of 9.5 m2 were checked against an area_min rule
\* of 9.5 m2: one Issue, for the first room
C17_Witness ==
    /\ cmp_pc = "checked"
    /\ Len(cmp_in.rooms) = 2 /\ Len(cmp_in.rules) = 2
    /\ cmp_in.rooms[1].id # cmp_in.rooms[2].id
    /\ cmp_in.rooms[1].area_m2 = 80 /\ cmp_in.rooms[2].area_m2 = 95
    /\ cmp_in.rules[1].rule_type = "area_min" /\ cmp_in.rules[1].element_type = "room"
    /\ cmp_in.rules[1].min_value = 95
    /\ cmp_in.rules[2].rule_type = "text"
    /\ Len(issues) = 1 /\ issues[1].element_id = cmp_in.rooms[1].id


----------------------------------------------------------------------------
(* Further properties of the ingestion (SpecIngest) *)

\* the text of the page a chunk was split from
PageTextOf(c) == pages[PageOfChunk(c)].page_content

\* the positions, among the last three lines, of the acceptable digits-only
\* lines: at most 4 digits, a number in 1..2000 within 100 of the PDF page
AcceptableLines(lines, pdf_page_num) ==
    {i \in 1..Len(lines) :
        /\ i >= Len(lines) - 2
        /\ IsDigit(Strip(lines[i])) /\ Len(Strip(lines[i])) <= MaxPageDigits
        /\ StrToInt(Strip(lines[i])) \in 1..MaxPageNumber
        /\ Abs(StrToInt(Strip(lines[i])) - pdf_page_num) <= PageProximity}

\* the number of the acceptable digits-only line met first when the last three
\* lines are scanned from the last to the first
LineCandidate(lines, pdf_page_num) ==
    IF AcceptableLines(lines, pdf_page_num) = {} THEN NoPage
    ELSE StrToInt(Strip(lines[Max(AcceptableLines(lines, pdf_page_num))]))

\* the acceptable trailing digits of the last line
TrailingCandidate(text, pdf_page_num) ==
    TrailingNumber(Strip(LastLine(text)), pdf_page_num)

\* the candidate of the highest-priority pattern that has one
ByPriority(label, line, trailing) ==
    IF label # NoPage THEN label ELSE IF line # NoPage THEN line ELSE trailing

SectionFamilies ==
    <<[keys |-> {"Section", "Sec"}, dotted |-> {"Sec"}, ws |-> 1, lo |-> 1, hi |-> 3],
      [keys |-> {"Chapter"}, dotted |-> {}, ws |-> 1, lo |-> 0, hi |-> 1],
      [keys |-> {"Art", "Article"}, dotted |-> {"Art"}, ws |-> 1, lo |-> 1, hi |-> 2],
      [keys |-> {"SectionSign"}, dotted |-> {}, ws |-> 0, lo |-> 1, hi |-> 3]>>

\* the label captured by the leftmost match of a family in the text
FamilyLabel(text, f) == SectionSearch(text, f.keys, f.dotted, f.ws, f.lo, f.hi)

\* the families that match somewhere in the text
MatchingFamilies(text) ==
    {i \in 1..Len(SectionFamilies) : FamilyLabel(text, SectionFamilies[i]) # NoLabel}

\* C19: the section of a text is the label captured by the first family, in
\* the order Section / Sec., Chapter, Art. / Article, section sign, that
\* matches anywhere in the text, wherever the matches of later families lie;
\* it is none when no family matches.
C19_FirstFamilyWins ==
    Chunked =>
        \A k \in 1..Len(chunks) :
            chunks[k].section =
                IF MatchingFamilies(chunks[k].page_content) = {} THEN NoLabel
                ELSE FamilyLabel(chunks[k].page_content,
                         SectionFamilies[Min(MatchingFamilies(chunks[k].page_content))])

\* a chunk that starts with "Chapter 3" and holds "Section 5.2" further on got
\* the section 5.2
C19_Witness ==
    /\ Chunked
    /\ \E k \in 1..Len(chunks) :
          /\ chunks[k].page_content[1] = "Chapter"
          /\ {1, 2} \subseteq MatchingFamilies(chunks[k].page_content)
          /\ chunks[k].section = <<"5", ".", "2">>


\* the pages a chunk can have been split from: its text is part of theirs
PagesHolding(c) ==
    {q \in 1..Len(pages) : Contains(pages[q].page_content, c.page_content)}

\* C20: every chunk carries the page_pdf = pdf_page_index + 1 of the page it
\* was split from and the page_document recovered once from the full text of
\* that page (or none), and a section computed from the chunk's own text; two
\* chunks of one page may differ in section but never in a page number.
C20_PageNumbersPerPageSectionPerChunk ==
    Chunked =>
        /\ \A k \in 1..Len(chunks) :
              /\ \E q \in PagesHolding(chunks[k]) :
                    /\ chunks[k].page_pdf = pages[q].page + 1
                    /\ chunks[k].page_document =
                          extract_page_number_from_text(pages[q].page_content,
                                                        pages[q].page)
              /\ chunks[k].section = extract_section_number(chunks[k].page_content)
        /\ \A k, l \in 1..Len(chunks) :
              chunks[k].page_pdf = chunks[l].page_pdf
                  => chunks[k].page_document = chunks[l].page_document

\* two chunks of one page: the first holds a section label, the second the
\* page number; they differ in section and share the page numbers
C20_Witness ==
    /\ Chunked /\ Len(pages) = 1 /\ Len(chunks) = 2
    /\ chunks[1].section # NoLabel /\ chunks[2].section = NoLabel
    /\ chunks[1].page_document # NoPage
    /\ chunks[1].page_document = chunks[2].page_document
    /\ chunks[1].page_pdf = chunks[2].page_pdf
    /\ extract_page_number_from_text(chunks[1].page_content, pages[1].page) = NoPage

----------------------------------------------------------------------------
\* the 0-based index of a page a chunk was split from
PdfPageIndexes(c) ==
    {pages[q].page : q \in {r \in PagesHolding(c) : pages[r].page + 1 = c.page_pdf}}

\* C21 as stated: the preferred page of a chunk is its document page number
\* when one was recovered and pdf_page_index + 1 + 1 otherwise.
C21_AsStated ==
    Chunked =>
        \A k \in 1..Len(chunks) :
            \E i \in PdfPageIndexes(chunks[k]) :
                chunks[k].page = IF chunks[k].page_document # NoPage
                                 THEN chunks[k].page_document
                                 ELSE i + 1 + 1

\* C21: the preferred page of a chunk is its document page number when one
\* was recovered and pdf_page_index + 1, the 1-based PDF page, otherwise.
C21_PreferredPageFallsBackToPdfPage ==
    Chunked =>
        \A k \in 1..Len(chunks) :
            \E i \in PdfPageIndexes(chunks[k]) :
                chunks[k].page = IF chunks[k].page_document # NoPage
                                 THEN chunks[k].page_document
                                 ELSE i + 1

\* a two-page document: the first page has a recovered number, the second
\* has none and shows its 1-based PDF page
C21_Witness ==
    /\ Chunked /\ Len(pages) = 2 /\ Len(chunks) = 2
    /\ chunks[1].page_document # NoPage
    /\ chunks[1].page = chunks[1].page_document
    /\ chunks[1].page # chunks[1].page_pdf
    /\ chunks[2].page_document = NoPage
    /\ chunks[2].page = pages[2].page + 1

----------------------------------------------------------------------------
----------------------------------------------------------------------------
\* a hybrid retrieval has returned
Fused == retriever # NoRetriever /\ retriever.mode = "hybrid" /\ results.status = "ok"

\* sparse results, then dense results: the order chunks are encountered in
Encountered == results.lists[1] \o results.lists[2]

\* ranks 1..n carry the scores as integers over one denominator
ScoreRanks == Max({Len(results.lists[1]), Len(results.lists[2]), 1})

\* weight_i / (rank_i + constant), summed over a set of ranks of list i
RECURSIVE SumOverRanks(_, _)
SumOverRanks(i, ranks) ==
    IF ranks = {} THEN 0
    ELSE RrfTerm(retriever.weights[i], Min(ranks), ScoreRanks)
         + SumOverRanks(i, ranks \ {Min(ranks)})

\* the score of the chunk with this id: one term per index that returned it
ChunkScore(id) ==
    SumOverRanks(1, {r \in 1..Len(results.lists[1]) : results.lists[1][r].id = id})
    + SumOverRanks(2, {r \in 1..Len(results.lists[2]) : results.lists[2][r].id = id})

\* the score of a chunk text: one term per place it holds in either result
TextScore(content) ==
    SumOverRanks(1, {r \in 1..Len(results.lists[1]) :
                         results.lists[1][r].content = content})
    + SumOverRanks(2, {r \in 1..Len(results.lists[2]) :
                           results.lists[2][r].content = content})

\* where a chunk / a chunk text is first encountered
FirstChunkPlace(id) == Min({i \in 1..Len(Encountered) : Encountered[i].id = id})
FirstTextPlace(content) ==
    Min({i \in 1..Len(Encountered) : Encountered[i].content = content})

\* C23 as stated: the fused list holds each chunk at most once, in descending
\* order of the chunk's score (the sum over the indices that returned the
\* chunk of weight_i / (rank_i + constant)); chunks of equal score keep
\* first-encountered order, sparse results before dense results.
C23_AsStated ==
    Fused =>
        \A i, j \in 1..Len(results.docs) :
            i < j =>
                /\ results.docs[i].id # results.docs[j].id
                /\ ChunkScore(results.docs[i].id) >= ChunkScore(results.docs[j].id)
                /\ ChunkScore(results.docs[i].id) = ChunkScore(results.docs[j].id)
                       => FirstChunkPlace(results.docs[i].id)
                              < FirstChunkPlace(results.docs[j].id)

\* C23: chunks are told apart by their text.  The fused list holds each
\* returned chunk text once, as the first chunk encountered with it, in
\* descending order of the text's score (the sum over every place the text
\* holds in the sparse and the dense result of weight_i / (rank_i +
\* constant)); texts of equal score keep first-encountered order.
C23_FusedByTextScore ==
    Fused =>
        /\ {d.content : d \in {results.docs[i] : i \in 1..Len(results.docs)}}
               = {Encountered[i].content : i \in 1..Len(Encountered)}
        /\ \A i \in 1..Len(results.docs) :
               results.docs[i] = Encountered[FirstTextPlace(results.docs[i].content)]
        /\ \A i, j \in 1..Len(results.docs) :
               i < j =>
                   /\ results.docs[i].content # results.docs[j].content
                   /\ TextScore(results.docs[i].content)
                          >= TextScore(results.docs[j].content)
                   /\ TextScore(results.docs[i].content)
                          = TextScore(results.docs[j].content)
                          => FirstTextPlace(results.docs[i].content)
                                 < FirstTextPlace(results.docs[j].content)

\* default weights, each index returned one chunk, of different texts: the
\* scores tie and the sparse chunk comes first
C23_Witness ==
    /\ Fused /\ retriever.weights = <<5, 5>>
    /\ Len(results.lists[1]) = 1 /\ Len(results.lists[2]) = 1
    /\ results.lists[1][1].content # results.lists[2][1].content
    /\ results.docs = <<results.lists[1][1], results.lists[2][1]>>

----------------------------------------------------------------------------
\* the characters of a text, a word being a run of letters
RECURSIVE Chars(_)
Chars(t) ==
    IF t = <<>> THEN <<>>
    ELSE IF Len(t) = 1
         THEN (IF AtomLen(t[1]) = 1 THEN t ELSE [i \in 1..AtomLen(t[1]) |-> "x"])
         ELSE Chars(SubSeq(t, 1, Len(t) \div 2))
              \o Chars(SubSeq(t, Len(t) \div 2 + 1, Len(t)))

\* e is text itself when text has at most 200 characters, and otherwise the
\* first 200 characters of text followed by "..."
IsExcerptOf(e, text) ==
    IF Len(Chars(text)) <= 200 THEN e = text
    ELSE /\ Len(Chars(e)) = 203
         /\ SubSeq(Chars(e), 1, 200) = SubSeq(Chars(text), 1, 200)
         /\ SubSeq(Chars(e), 201, 203) = <<".", ".", ".">>

\* C25: the excerpt of every citation is the text of the chunk it cites when
\* that text has at most 200 characters, and otherwise its first 200
\* characters followed by "..."; no excerpt is longer than 203 characters.
C25_ExcerptBounded ==
    (pc = "done" /\ response.status = 200)
    => \A i \in 1..Len(response.citations) :
          /\ Len(Chars(response.citations[i].text)) <= 203
          /\ \E k \in 1..Len(retrieved_docs) :
                /\ response.citations[i].source = retrieved_docs[k].source
                /\ response.citations[i].section = retrieved_docs[k].section
                /\ response.citations[i].page = ShownPage(retrieved_docs[k])
                /\ \A l \in 1..(k - 1) :
                      CitationKey(retrieved_docs[l]) # CitationKey(retrieved_docs[k])
                /\ IsExcerptOf(response.citations[i].text,
                               retrieved_docs[k].page_content)

\* a chunk of exactly 200 characters cited whole and a chunk of 201
\* characters cited by its first 200 and "..."
C25_Witness ==
    /\ pc = "done" /\ response.status = 200
    /\ Len(retrieved_docs) = 2 /\ Len(response.citations) = 2
    /\ Len(Chars(retrieved_docs[1].page_content)) = 200
    /\ response.citations[1].text = retrieved_docs[1].page_content
    /\ Len(Chars(retrieved_docs[2].page_content)) = 201
    /\ Len(Chars(response.citations[2].text)) = 203
    /\ response.citations[2].text # retrieved_docs[2].page_content

----------------------------------------------------------------------------
(* Properties of the start-up of the index (SpecStartup) *)

\* C26: whatever the interleaving of the first requests, get_vector_store
\* constructs one VectorStore and ingests the PDF set once, and every call
\* returns that one instance.
C26_ConstructedAndIngestedOnce ==
    /\ Len(stores) <= 1
    /\ \A s \in 1..Len(stores) : Len(stores[s]) <= MaxPdfs
    /\ \A t, u \in 1..MaxThreads :
          (threads[t].local # NoStore /\ threads[u].local # NoStore)
              => threads[t].local = threads[u].local

\* C27: no request retrieves from the index while the ingestion another
\* request started is in progress, so every request retrieves from the
\* whole PDF set.
C27_NoRetrievalDuringIngestion ==
    \A t \in 1..MaxThreads :
        threads[t].pc = "done"
            => /\ ~threads[t].busy
               /\ {threads[t].got[k] : k \in 1..Len(threads[t].got)} = 1..MaxPdfs

----------------------------------------------------------------------------
(* Properties of the rule extraction (SpecRules) *)

\* the rules extract_rules_from_pdf returned for the PDFs that exist, in order
AllExtracted ==
    Concat([p \in 1..Len(rx_in) |->
               IF rx_in[p].exists THEN rx_in[p].extracted ELSE <<>>])

\* C28: the rules extract_rules_from_pdfs returns have pairwise distinct ids,
\* none of them a seeded id, and every extracted rule is among them, in
\* order, under its own id or renamed, none dropped.
C28_DistinctIdsNothingDropped ==
    rx_pc = "done"
    => /\ \A i, j \in 1..Len(rx_out) : i # j => rx_out[i].id # rx_out[j].id
       /\ \A i \in 1..Len(rx_out) : rx_out[i].id \notin SeededIds
       /\ Len(rx_out) = Len(AllExtracted)
       /\ \A i \in 1..Len(rx_out) :
             /\ rx_out[i].original_id = AllExtracted[i].id
             /\ rx_out[i].element_type = AllExtracted[i].element_type
             /\ rx_out[i].id # rx_out[i].original_id
                    => rx_out[i].id.num >= FirstExtractedNum

----------------------------------------------------------------------------
(* Properties of the repeated repair (SpecRepair) *)

\* C29: _fix_citations_in_answer is idempotent: applied to its own output
\* with the same chunks it returns that output unchanged.
C29_RepairIdempotent ==
    fix_pc = "refixed" => fix_out2 = FixedText

\* a second run on a text the first run changed, in which the second run
\* finds a citation again
C29_Witness ==
    /\ fix_pc = "refixed"
    /\ FixedText # fix_in
    /\ fix_docs # <<>>
    /\ \E i \in 1..Len(fix_out2) : MatchAt(fix_out2, i).ok

----------------------------------------------------------------------------
(* Properties of the citation list against every retrieved chunk (Spec) *)

\* the page number a chunk is known by: its document page if recovered,
\* else its PDF page
KnownPage(d) == IF d.page_document # NoPage THEN d.page_document ELSE d.page_pdf

\* two chunks of one source and section known by the same page number
SameReference(d, e) ==
    d.source = e.source /\ d.section = e.section /\ KnownPage(d) = KnownPage(e)

\* the first retrieved chunk with the source, page number and section of d
FirstWithKey(d) ==
    retrieved_docs[CHOOSE i \in 1..Len(retrieved_docs) :
                      /\ SameReference(retrieved_docs[i], d)
                      /\ \A j \in 1..(i - 1) : ~SameReference(retrieved_docs[j], d)]

\* C30 as stated: for every retrieved chunk the citation list holds an entry
\* with that chunk's source, section and displayed page including its
\* page-type label.
C30_AsStated ==
    (pc = "done" /\ response.status = 200) =>
        \A i \in 1..Len(retrieved_docs) :
            \E j \in 1..Len(response.citations) :
                /\ response.citations[j].source = retrieved_docs[i].source
                /\ response.citations[j].section = retrieved_docs[i].section
                /\ response.citations[j].page = PageLabel(retrieved_docs[i])

\* C30: for every retrieved chunk the citation list holds exactly one entry
\* with that chunk's source, section and page number (document page if
\* recovered, else PDF page); it shows the page-type label of the first
\* retrieved chunk with that key.
C30_RepresentedByFirstOfKey ==
    (pc = "done" /\ response.status = 200) =>
        \A i \in 1..Len(retrieved_docs) :
            LET js == {j \in 1..Len(response.citations) :
                          /\ response.citations[j].source = retrieved_docs[i].source
                          /\ response.citations[j].section = retrieved_docs[i].section
                          /\ response.citations[j].page.num
                                 = KnownPage(retrieved_docs[i])}
            IN /\ Cardinality(js) = 1
               /\ \A j \in js :
                     response.citations[j].page
                         = PageLabel(FirstWithKey(retrieved_docs[i]))

\* a chunk known only by its PDF page N and a chunk with document page N of
\* the same source and section were retrieved and answered with one citation
C30_Witness ==
    /\ pc = "done" /\ response.status = 200
    /\ \E a, b \in 1..Len(retrieved_docs) :
          /\ retrieved_docs[a].page_document = NoPage
          /\ retrieved_docs[b].page_document = retrieved_docs[a].page_pdf
          /\ retrieved_docs[b].source = retrieved_docs[a].source
          /\ retrieved_docs[b].section = retrieved_docs[a].section
          /\ PageLabel(retrieved_docs[a]) # PageLabel(retrieved_docs[b])
    /\ Len(response.citations) = 1

====
